---- MODULE Spec2Model ----
(***************************************************************************)
(* A model of FYPHaykl.py: the MotorSimulator (speed command, PWM gating,  *)
(* emergency / post-emergency protocol, RPM ramp, temperature, thermal     *)
(* slow-down) and the LiveViewScreen handlers and Blynk handlers that      *)
(* drive it (switch polling, hold-to-start, emergency lockout and reset).  *)
(*                                                                         *)
(* Units.  Temperatures are integers in thousandths of a degree Celsius:   *)
(* every rate of MotorSimulator.update (0.01, 0.03, 0.05, 0.07,            *)
(* 0.15 + percent/100 * 0.2) is a whole number of thousandths when percent *)
(* is an integer, so the arithmetic is exact up to the rounding of the     *)
(* floats.  One-shot Clock timers count halves of a second.                *)
(***************************************************************************)
EXTENDS Integers, Sequences, FiniteSets, TLC

\* ------------------------------------------------------------ constants

MAX_RPM == 2750

BASELINE_TEMP == 27000

\* Clock.schedule_once delays, in halves of a second: confirm_start (1.0 s),
\* enable_emergency_touch (2.0 s), do_reset_after_delay (0.5 s).
HOLD_DELAY == 2

LOCKOUT_DELAY == 4

RESET_DELAY == 1

FRAME_WIDTH == 640

FRAME_HEIGHT == 480

MIN_HAND_AREA == 3000

MIN_MOTION_AREA == 1000

\* ------------------------------------------------------------ bounds

\* update ticks a behaviour of SpecMotor may take after its initial state
MaxTicks == 3

\* update_motor_status ticks a behaviour of Spec may take
MaxAppTicks == 1

\* enable_emergency_touch countdowns pending when a remote emergency command
\* is delivered
MaxCountdowns == 1

\* update_frame ticks a behaviour of SpecDetect may take
MaxFrames == 3

\* seconds a behaviour of SpecDetect may let pass
MaxSeconds == 2

\* Seconds of runtime ticks in the run-hours scenarios.
MaxRunSeconds == 3

\* Presses of the debug key "2" are taken while run_hours is below this many
\* hours.
MaxKeyHours == 1

\* Screens replaced by an emergency reset in the run-hours scenarios.
MaxResets == 2

\* ------------------------------------------------------------ state

VARIABLES
    motor,      \* the MotorSimulator object (a record of its attributes)
    log,        \* the event types appended to EVENT_LOG by the last handler,
                \* or the warning it printed or the exception it raised
    ticks,      \* update ticks taken so far (bounds the behaviours)
    screen,     \* the LiveViewScreen the ScreenManager shows as "live"
    clock,      \* the one-shot events pending in the Kivy Clock
    switch_on,  \* the motor switch: GPIO.input(MOTOR_SWITCH) == GPIO.LOW
    seen_off,   \* history: a status poll read the switch off since
                \* PostEmergency was last entered
    view,       \* the camera side of the LiveViewScreen: zone parameters,
                \* zones, overlay cache, detection and warning attributes
    now,        \* time.time(), in seconds
    remote,     \* the Blynk thread: where it is in a handler, and the
                \* handler's locals
    runtime,    \* run_hours (in seconds) and last_runtime_update of the live
                \* screen shown and of the screens a reset has replaced
    disk,       \* the files motion_settings.json, its .tmp and
                \* run_hours.json, and the write in progress
    last_tick   \* history: what the last update_frame tick did ("none"
                \* before the first, "emergency", "failed", "detect", "skip")

vars ==
    <<motor, log, ticks, screen, clock, switch_on, seen_off, view, now,
      remote, runtime, disk, last_tick>>

cameraVars == <<view, now, last_tick>>

threadVars == <<remote>>

storeVars == <<runtime, disk>>

screenVars ==
    <<screen, clock, switch_on, seen_off, cameraVars, threadVars, storeVars>>

Min(a, b) == IF a < b THEN a ELSE b

Max(a, b) == IF a > b THEN a ELSE b

Abs(a) == IF a < 0 THEN -a ELSE a

\* ------------------------------------------------------------ MotorSimulator

\* MotorSimulator.__init__: pwm is the duty cycle of the PWM on RPWM,
\* enabled mirrors the REN line, alarm_on mirrors the buzzer pin.
MotorInit ==
    [ set_speed_percent      |-> 0,
      set_rpm                |-> 0,
      current_rpm            |-> 0,
      temperature            |-> BASELINE_TEMP,
      last_nonzero_speed     |-> 0,
      digitally_toggled_off  |-> FALSE,
      in_emergency           |-> FALSE,
      post_emergency         |-> FALSE,
      original_speed_percent |-> 0,
      slow_down              |-> FALSE,
      pwm                    |-> 0,
      enabled                |-> TRUE,
      alarm_on               |-> FALSE ]

_sound_alarm_silent(m, on) == m

_sound_alarm(m, on) == [m EXCEPT !.alarm_on = on]

set_speed_duty_ungated(m, percent) == percent

\* The duty cycle set_speed hands to ChangeDutyCycle.
set_speed_duty(m, percent) ==
    IF m.enabled /\ ~m.in_emergency /\ ~m.post_emergency THEN percent ELSE 0

set_speed_unclamped(m, p) ==
    [m EXCEPT !.set_speed_percent  = p,
              !.last_nonzero_speed = IF p > 0 THEN p ELSE @,
              !.pwm                = set_speed_duty(m, p)]

set_speed(m, p) ==
    LET percent == Max(0, Min(100, p))
    IN  [m EXCEPT !.set_speed_percent  = percent,
                  !.last_nonzero_speed = IF percent > 0 THEN percent ELSE @,
                  !.pwm                = set_speed_duty(m, percent)]

enable_motor_duty_unguarded(m) == m.set_speed_percent

enable_motor_duty_last(m) ==
    IF ~m.in_emergency /\ ~m.post_emergency THEN m.last_nonzero_speed ELSE m.pwm

\* The duty cycle after enable_motor.
enable_motor_duty(m) ==
    IF ~m.in_emergency /\ ~m.post_emergency THEN m.set_speed_percent ELSE m.pwm

enable_motor(m) ==
    [m EXCEPT !.enabled = TRUE,
              !.pwm     = enable_motor_duty(m)]

disable_motor_keeps_duty(m) ==
    IF m.enabled
    THEN [m EXCEPT !.enabled = FALSE]
    ELSE m

disable_motor(m) ==
    IF m.enabled
    THEN [m EXCEPT !.pwm = 0, !.enabled = FALSE]
    ELSE m

toggle_digital_default_only(m) ==
    IF m.set_speed_percent > 0 /\ ~m.in_emergency /\ ~m.post_emergency
    THEN [set_speed([m EXCEPT !.last_nonzero_speed = m.set_speed_percent], 0)
            EXCEPT !.digitally_toggled_off = TRUE]
    ELSE LET r == IF m.enabled /\ ~m.in_emergency /\ ~m.post_emergency
                  THEN set_speed(m, 30)
                  ELSE m
         IN  [r EXCEPT !.digitally_toggled_off = FALSE]

toggle_digital_unguarded(m) ==
    IF m.set_speed_percent > 0
    THEN [set_speed([m EXCEPT !.last_nonzero_speed = m.set_speed_percent], 0)
            EXCEPT !.digitally_toggled_off = TRUE]
    ELSE LET r == IF m.enabled
                  THEN set_speed(m, IF m.last_nonzero_speed # 0
                                    THEN m.last_nonzero_speed ELSE 30)
                  ELSE m
         IN  [r EXCEPT !.digitally_toggled_off = FALSE]

toggle_digital(m) ==
    IF m.set_speed_percent > 0 /\ ~m.in_emergency /\ ~m.post_emergency
    THEN [set_speed([m EXCEPT !.last_nonzero_speed = m.set_speed_percent], 0)
            EXCEPT !.digitally_toggled_off = TRUE]
    ELSE LET r == IF m.enabled /\ ~m.in_emergency /\ ~m.post_emergency
                  THEN set_speed(m, IF m.last_nonzero_speed # 0
                                    THEN m.last_nonzero_speed ELSE 30)
                  ELSE m
         IN  [r EXCEPT !.digitally_toggled_off = FALSE]

enter_emergency_keeps_post(m) ==
    _sound_alarm(disable_motor([m EXCEPT !.in_emergency = TRUE]), TRUE)

enter_emergency(m) ==
    _sound_alarm(disable_motor([m EXCEPT !.in_emergency   = TRUE,
                                         !.post_emergency = FALSE]), TRUE)

exit_emergency(m) ==
    _sound_alarm(disable_motor([m EXCEPT !.in_emergency   = FALSE,
                                         !.post_emergency = TRUE]), FALSE)

complete_post_emergency(m) ==
    LET c == [m EXCEPT !.post_emergency = FALSE]
    IN  IF c.enabled
        THEN set_speed(c, IF c.last_nonzero_speed # 0
                          THEN c.last_nonzero_speed ELSE 30)
        ELSE c

ramp_step_unscaled(delta) == Min(3 * delta, 100)

ramp_step_ceil(delta) == Min((3 * delta + 9) \div 10, 100)

\* int(delta * 0.3): the product of an integer below 2^31 with the float 0.3
\* truncates to floor(3 * delta / 10).
ramp_step(delta) == Min((3 * delta) \div 10, 100)

\* update, steps 1 and 2: the target RPM and the ramp towards it.
update_rpm(m) ==
    LET target == (m.set_speed_percent * MAX_RPM) \div 100
        cur    == m.current_rpm
    IN  [m EXCEPT !.set_rpm = target,
                  !.current_rpm =
                      IF cur < target THEN cur + ramp_step(target - cur)
                      ELSE IF cur > target THEN cur - ramp_step(cur - target)
                      ELSE cur]

\* update, step 3: the rise per tick, in thousandths of a degree.
temp_increase_rate(percent) ==
    IF percent > 55 THEN 150 + 2 * percent
    ELSE IF percent < 40 THEN 10
    ELSE 50

clamp_temperature_below_only(t) == IF t < 0 THEN 0 ELSE t

\* update, step 5: the clamp to [0, 70].
clamp_temperature(t) ==
    LET lo == IF t < 0 THEN 0 ELSE t
    IN  IF lo > 70000 THEN 70000 ELSE lo

\* update, steps 3 to 5: rise, cooling, clamp.
update_temperature(m) ==
    LET risen  == m.temperature + temp_increase_rate(m.set_speed_percent)
        cooled == IF m.set_speed_percent <= 20 THEN risen - 30
                  ELSE IF m.set_speed_percent = 0 THEN risen - 70
                  ELSE IF risen > BASELINE_TEMP + 5000
                       THEN Min(risen, BASELINE_TEMP + 70000)
                       ELSE risen
    IN  [m EXCEPT !.temperature = clamp_temperature(cooled)]

slow_down_starts_every_tick(m) == m.temperature >= 60000

\* update, step 6, first half: whether this tick starts a slow-down (and
\* logs TEMP_HIGH); m is the state after the clamp.
slow_down_starts(m) == m.temperature >= 60000 /\ ~m.slow_down

update_slow_down_hysteresis(m) ==
    LET s == IF slow_down_starts(m)
             THEN [m EXCEPT !.original_speed_percent = m.set_speed_percent,
                            !.slow_down = TRUE]
             ELSE m
    IN  IF s.slow_down
        THEN IF s.temperature >= 59000
             THEN IF s.set_speed_percent > 20
                  THEN set_speed(s, Max(s.set_speed_percent - 1, 20))
                  ELSE s
             ELSE [s EXCEPT !.slow_down = FALSE]
        ELSE s

update_slow_down_by_two(m) ==
    LET s == IF slow_down_starts(m)
             THEN [m EXCEPT !.original_speed_percent = m.set_speed_percent,
                            !.slow_down = TRUE]
             ELSE m
    IN  IF s.slow_down
        THEN IF s.temperature >= 60000
             THEN IF s.set_speed_percent > 20
                  THEN set_speed(s, Max(s.set_speed_percent - 2, 20))
                  ELSE s
             ELSE [s EXCEPT !.slow_down = FALSE]
        ELSE s

update_slow_down_restores(m) ==
    LET s == IF slow_down_starts(m)
             THEN [m EXCEPT !.original_speed_percent = m.set_speed_percent,
                            !.slow_down = TRUE]
             ELSE m
    IN  IF s.slow_down
        THEN IF s.temperature >= 60000
             THEN IF s.set_speed_percent > 20
                  THEN set_speed(s, Max(s.set_speed_percent - 1, 20))
                  ELSE s
             ELSE set_speed([s EXCEPT !.slow_down = FALSE],
                            s.original_speed_percent)
        ELSE s

\* update, step 6: the gradual slow-down.
update_slow_down(m) ==
    LET s == IF slow_down_starts(m)
             THEN [m EXCEPT !.original_speed_percent = m.set_speed_percent,
                            !.slow_down = TRUE]
             ELSE m
    IN  IF s.slow_down
        THEN IF s.temperature >= 60000
             THEN IF s.set_speed_percent > 20
                  THEN set_speed(s, Max(s.set_speed_percent - 1, 20))
                  ELSE s
             ELSE [s EXCEPT !.slow_down = FALSE]
        ELSE s

\* update, step 7: rnd is the draw of np.random.uniform(-1, 1).
update_fluctuation(m, rnd) ==
    IF ~m.slow_down /\ m.set_speed_percent = 0
       /\ Abs(m.temperature - BASELINE_TEMP) < 10
    THEN [m EXCEPT !.temperature = BASELINE_TEMP + rnd]
    ELSE m

update(m, rnd) ==
    update_fluctuation(update_slow_down(update_temperature(update_rpm(m))), rnd)

\* The events update(m, .) passes to log_event.
update_events(m) ==
    IF slow_down_starts(update_temperature(update_rpm(m)))
    THEN <<"TEMP_HIGH">> ELSE <<>>

\* ------------------------------------------------------------ LiveViewScreen
\* The model follows the GPIO branch of the switch reads (platform.system()
\* is not "Windows") with the shutdown switch PI_SWITCH left alone.

\* LiveViewScreen.__init__.  start_confirmed is read with
\* getattr(self, "start_confirmed", False); touch_bound is the binding of
\* reset_from_emergency to root_layout's on_touch_down; widgets tells whether
\* root_layout holds the live controls or the emergency panel; ticks_scheduled
\* tells whether this screen's update_status_bar and update_motor_status
\* intervals are scheduled.
ScreenInit ==
    [ start_confirmed         |-> FALSE,
      hold_event              |-> FALSE,
      emergency_touch_enabled |-> FALSE,
      touch_bound             |-> FALSE,
      manual_overlay          |-> FALSE,
      widgets                 |-> "live",
      ticks_scheduled         |-> TRUE ]

\* The pending one-shot events, each set holding the time left of its events:
\* confirm_start, enable_emergency_touch and do_reset_after_delay of the
\* screen shown, do_reset_after_delay of a screen already replaced
\* (stale_reset), and the screens ("live" the one shown, "stale" a replaced
\* one) whose activate_emergency handle_emergency_button has scheduled.
ClockInit ==
    [ confirm_start |-> {},
      countdown     |-> {},
      reset         |-> {},
      stale_reset   |-> {},
      emergency     |-> {} ]

SetMax(S) == CHOOSE x \in S : \A y \in S : y <= x

command_allowed_without_hold(sw, m, sc) ==
    sw /\ ~(m.post_emergency \/ m.in_emergency)

\* The guard shared by on_speed_button, on_dig_toggle, open_manual_override
\* and on_manual_slider.
command_allowed(sw, m, sc) ==
    sw /\ ~(m.post_emergency \/ m.in_emergency) /\ sc.start_confirmed

on_speed_button(sw, m, sc, percent) ==
    IF command_allowed(sw, m, sc) THEN set_speed(m, percent) ELSE m

on_dig_toggle(sw, m, sc) ==
    IF command_allowed(sw, m, sc) THEN toggle_digital(m) ELSE m

on_manual_slider(sw, m, sc, val) ==
    IF command_allowed(sw, m, sc) THEN set_speed(m, val) ELSE m

remote_allowed_in_emergency(sw, m) == sw

\* The guard of the Blynk handlers handle_speed_slider and handle_dig_toggle.
remote_allowed(sw, m) == sw /\ ~(m.in_emergency \/ m.post_emergency)

\* value is the list Blynk delivers, its elements already integers.
handle_speed_slider(sw, m, value) ==
    IF Len(value) = 0 THEN m
    ELSE IF remote_allowed(sw, m) THEN set_speed(m, value[1]) ELSE m

handle_dig_toggle(sw, m, value) ==
    IF Len(value) = 0 THEN m
    ELSE IF value[1] # 1 THEN m
    ELSE IF remote_allowed(sw, m) THEN toggle_digital(m) ELSE m

\* The Blynk thread between two commands.
RemoteIdle == [pc |-> "idle", percent |-> 0, duty |-> 0, flag |-> "none"]

\* set_speed up to its gate: the clamped percent is stored.
set_speed_store(m, percent) ==
    [m EXCEPT !.set_speed_percent  = percent,
              !.last_nonzero_speed = IF percent > 0 THEN percent ELSE @]

\* handle_emergency_button: whether activate_emergency is scheduled.
handle_emergency_button(value) == Len(value) # 0 /\ value[1] = 1

update_status_bar_enables_first(sw, m) ==
    IF ~sw THEN disable_motor(m)
    ELSE IF m.post_emergency THEN complete_post_emergency(enable_motor(m))
    ELSE IF ~m.in_emergency THEN enable_motor(m)
    ELSE m

\* update_status_bar, part B: the poll of the motor switch.
update_status_bar(sw, m) ==
    IF ~sw THEN disable_motor(m)
    ELSE IF m.post_emergency THEN complete_post_emergency(m)
    ELSE IF ~m.in_emergency THEN enable_motor(m)
    ELSE m

\* update_motor_status, step 3: the motor part of the guard of the
\* high-temperature popup, read after self.motor.update(dt).
temp_warning_due(m) == m.temperature >= 60000 /\ ~m.slow_down

\* on_touch_down on the Hold To Start button: whether confirm_start is
\* scheduled.
hold_accepted(sw, m) == sw /\ ~(m.in_emergency \/ m.post_emergency)

\* ------------------------------------------------------------ persistence

\* A file: missing, holding a complete JSON document with the value written,
\* or holding the beginning of one (opened for writing, not yet closed).
Missing == [exists |-> FALSE, complete |-> FALSE, value |-> 0]

Whole(v) == [exists |-> TRUE, complete |-> TRUE, value |-> v]

Partial == [exists |-> TRUE, complete |-> FALSE, value |-> 0]

\* No file has been written yet and no write is in progress.
DiskInit ==
    [ settings  |-> Missing,
      tmp       |-> Missing,
      run_hours |-> Missing,
      pc        |-> "idle",
      pending   |-> 0 ]

\* load_run_hours: the stored value, 0.0 if the file is missing or invalid.
load_run_hours(file) ==
    IF file.exists /\ file.complete THEN file.value ELSE 0

\* save_run_hours, as a whole.
save_run_hours(d, hours) == [d EXCEPT !.run_hours = Whole(hours)]

\* update_run_hours of one screen [run_hours, last_runtime_update, ticked] at
\* time t; run_hours is kept in seconds.
running(m) == m.set_speed_percent > 0 /\ ~(m.in_emergency \/ m.post_emergency)

update_run_hours(sc, m, t) ==
    IF running(m)
    THEN [sc EXCEPT !.run_hours = @ + (t - sc.last_runtime_update),
                    !.last_runtime_update = t,
                    !.ticked = TRUE]
    ELSE [sc EXCEPT !.last_runtime_update = t, !.ticked = TRUE]

\* LiveViewScreen.__init__, the runtime tracking of a screen created at t.
new_runtime(d, t) ==
    [run_hours |-> load_run_hours(d.run_hours),
     last_runtime_update |-> t,
     ticked |-> TRUE]

\* ------------------------------------------------------------ camera side

\* time.time() when the application starts, in seconds.
StartTime == 100

\* The first LiveViewScreen, created at StartTime with no run_hours.json.
RuntimeInit == [live |-> new_runtime(DiskInit, StartTime), stale |-> <<>>]

\* LiveViewScreen.__init__, sections 10 and after: the zone and detection
\* parameters and the attributes update_frame works on.  None is <<>> for the
\* zones (not set before the first compute_zones) and 0 for prev_frame;
\* static_overlay records what the cached overlay was generated from;
\* status_text is status_label.text.
ViewInit ==
    [ outer_width      |-> 400,
      outer_height     |-> 300,
      inner_width      |-> 200,
      inner_height     |-> 200,
      zone_offset_x    |-> 0,
      zone_offset_y    |-> 0,
      hatch_spacing    |-> 20,
      warning_duration |-> 3,
      overlay_dirty    |-> TRUE,
      static_overlay   |-> [built |-> FALSE, size |-> <<0, 0>>,
                            outer |-> <<>>, inner |-> <<>>, hatch |-> 0],
      outer_zone       |-> <<>>,
      inner_zone       |-> <<>>,
      last_motion_time |-> 0,
      warning_text     |-> "",
      flash_event      |-> FALSE,
      flash_counter    |-> 0,
      prev_frame       |-> 0,
      frame_toggle     |-> FALSE,
      status_text      |-> "Cutting Board is Clear" ]

\* int(n / d) for integers n and d > 0: the float n / d is exact for the
\* halves and quarters of compute_zones, and int() truncates towards zero.
int_div(n, d) == IF n >= 0 THEN n \div d ELSE -((-n) \div d)

zone_polygon_untapered(cx, cy, w, h) ==
    << <<int_div(2 * cx - w, 2), int_div(2 * cy + h, 2)>>,
       <<int_div(2 * cx + w, 2), int_div(2 * cy + h, 2)>>,
       <<int_div(2 * cx + w, 2), int_div(2 * cy - h, 2)>>,
       <<int_div(2 * cx - w, 2), int_div(2 * cy - h, 2)>> >>

\* The trapezoid of compute_zones around (cx, cy): top_left, top_right,
\* bottom_right, bottom_left.
zone_polygon(cx, cy, w, h) ==
    << <<int_div(2 * cx - w, 2), int_div(2 * cy + h, 2)>>,
       <<int_div(2 * cx + w, 2), int_div(2 * cy + h, 2)>>,
       <<int_div(4 * cx + w, 4), int_div(2 * cy - h, 2)>>,
       <<int_div(4 * cx - w, 4), int_div(2 * cy - h, 2)>> >>

compute_zones(v, frame_width, frame_height) ==
    LET cx == frame_width \div 2 + v.zone_offset_x
        cy == frame_height \div 2 + v.zone_offset_y
    IN  [v EXCEPT
           !.outer_zone = zone_polygon(cx, cy, v.outer_width, v.outer_height),
           !.inner_zone = zone_polygon(cx, cy, v.inner_width, v.inner_height)]

\* SettingsScreen.update_settings, for a move of one slider.
update_settings(v, name, value) ==
    [[v EXCEPT ![name] = value] EXCEPT !.overlay_dirty = TRUE]

\* dict.get on the parsed settings, a sequence of <<key, value>> pairs.
settings_get(settings, name, default) ==
    IF \E i \in 1..Len(settings) : settings[i][1] = name
    THEN settings[CHOOSE i \in 1..Len(settings) : settings[i][1] = name][2]
    ELSE default

load_settings_invalid_resets(v) ==
    [ view |-> [v EXCEPT !.outer_width = 400, !.outer_height = 300,
                         !.inner_width = 200, !.inner_height = 200,
                         !.zone_offset_x = 0, !.zone_offset_y = 0,
                         !.hatch_spacing = 20, !.warning_duration = 3,
                         !.overlay_dirty = TRUE],
      out  |-> <<"WARNING">> ]

\* load_settings_from_file, the except branch: json.load raised
\* JSONDecodeError; a warning is printed.
load_settings_invalid(v) == [view |-> v, out |-> <<"WARNING">>]

\* load_settings_from_file.  The file is missing, is not JSON ("invalid"),
\* holds a JSON value that is not an object ("array": settings.get raises
\* AttributeError) or holds an object.  out is what the call printed or
\* raised.
load_settings_from_file(v, file) ==
    IF file.kind = "missing" THEN [view |-> v, out |-> <<>>]
    ELSE IF file.kind = "invalid" THEN load_settings_invalid(v)
    ELSE IF file.kind = "array" THEN [view |-> v, out |-> <<"AttributeError">>]
    ELSE LET get(name) == settings_get(file.settings, name, v[name])
         IN  [ view |-> [v EXCEPT !.outer_width = get("outer_width"),
                                  !.outer_height = get("outer_height"),
                                  !.inner_width = get("inner_width"),
                                  !.inner_height = get("inner_height"),
                                  !.zone_offset_x = get("zone_offset_x"),
                                  !.zone_offset_y = get("zone_offset_y"),
                                  !.hatch_spacing = get("hatch_spacing"),
                                  !.warning_duration = get("warning_duration"),
                                  !.overlay_dirty = TRUE],
               out  |-> <<>> ]

\* Twice the area of a polygon given as a sequence of four points.
Area2(z) ==
    LET cross(i, j) == z[i][1] * z[j][2] - z[j][1] * z[i][2]
    IN  Abs(cross(1, 2) + cross(2, 3) + cross(3, 4) + cross(4, 1))

\* The bounding box of zone a lies inside the bounding box of zone b.
BoxInside(a, b) ==
    \A i \in 1..4 :
       /\ \E j \in 1..4 : b[j][1] <= a[i][1]
       /\ \E j \in 1..4 : b[j][1] >= a[i][1]
       /\ \E j \in 1..4 : b[j][2] <= a[i][2]
       /\ \E j \in 1..4 : b[j][2] >= a[i][2]

\* cv2.pointPolygonTest(zone, pt, False) >= 0 for a convex zone: pt is on one
\* side of, or on, every edge.
point_in_zone(z, pt) ==
    LET side(i) ==
            LET a == z[i]
                b == z[(i % 4) + 1]
            IN  (b[1] - a[1]) * (pt[2] - a[2]) - (b[2] - a[2]) * (pt[1] - a[1])
    IN  \/ \A i \in 1..4 : side(i) >= 0
        \/ \A i \in 1..4 : side(i) <= 0

\* generate_static_overlay: the cache records what it was drawn from.
generate_static_overlay(v, frame_width, frame_height) ==
    [v EXCEPT !.static_overlay = [built |-> TRUE,
                                  size  |-> <<frame_width, frame_height>>,
                                  outer |-> v.outer_zone,
                                  inner |-> v.inner_zone,
                                  hatch |-> v.hatch_spacing],
              !.overlay_dirty = FALSE]

\* update_frame, hand detection: a skin contour is [area, cx, cy], the
\* centroid being int(m10 / m00), int(m01 / m00); m00 is the area of the
\* contour, so it is not 0 for a contour that passed the area test.
hand_hit(v, c) ==
    /\ ~(c.area < MIN_HAND_AREA)
    /\ point_in_zone(v.inner_zone, <<c.cx, c.cy>>)

hand_detected(v, skin) == \E i \in 1..Len(skin) : hand_hit(v, skin[i])

\* update_frame, motion detection: a motion contour is [area, x, y, w, h], its
\* bounding rectangle on the 320x240 frame; scaled_min_area is
\* MIN_MOTION_AREA * (320 * 240) / (640 * 480), a quarter of MIN_MOTION_AREA.
motion_class(v, c) ==
    LET cx == c.x * 2 + (c.w * 2) \div 2
        cy == c.y * 2 + (c.h * 2) \div 2
    IN  IF 4 * c.area < MIN_MOTION_AREA THEN ""
        ELSE IF point_in_zone(v.inner_zone, <<cx, cy>>) THEN "MOTION_INNER"
        ELSE IF point_in_zone(v.outer_zone, <<cx, cy>>) THEN "MOTION_OUTER"
        ELSE ""

motion_warning_last(v, motion) ==
    LET hits == {i \in 1..Len(motion) : motion_class(v, motion[i]) # ""}
    IN  IF hits = {} THEN ""
        ELSE motion_class(v, motion[CHOOSE i \in hits : \A j \in hits : i >= j])

\* The alert of the first contour that has one ("" when none has): the loop
\* over contours_motion breaks there.
motion_warning(v, motion) ==
    LET hits == {i \in 1..Len(motion) : motion_class(v, motion[i]) # ""}
    IN  IF hits = {} THEN ""
        ELSE motion_class(v, motion[CHOOSE i \in hits : \A j \in hits : i <= j])

update_status_label_strict(v, t) ==
    [v EXCEPT !.status_text =
        IF t - v.last_motion_time < v.warning_duration
        THEN v.warning_text
        ELSE "Cutting Board is Clear"]

\* update_frame, last part: the cutting board status label at time t.
update_status_label(v, t) ==
    [v EXCEPT !.status_text =
        IF t - v.last_motion_time <= v.warning_duration
        THEN v.warning_text
        ELSE "Cutting Board is Clear"]

motion_suppressed_never(hand) == FALSE

\* "if not hand_detected": whether the motion detection is left out.
motion_suppressed(hand) == hand

capture_failed_toggles(v) == [v EXCEPT !.frame_toggle = ~@]

\* "if not ret: return".
capture_failed(v) == v

next_frame_toggle_always(toggle) == TRUE

\* "self.frame_toggle = not self.frame_toggle".
next_frame_toggle(toggle) == ~toggle

\* update_frame on a frame [size, blur, skin, motion] at time t: blur is the
\* blurred 320x240 image (an identifier of it), skin and motion the contours
\* findContours returns.  The result is the screen after the tick, the events
\* logged and what the tick did.
frame_step(v, m, t, ret, frame) ==
    IF m.in_emergency
    THEN [view |-> v, events |-> <<>>, did |-> "emergency"]
    ELSE IF ~ret
    THEN [view |-> capture_failed(v), events |-> <<>>, did |-> "failed"]
    ELSE
    LET zoned == compute_zones(v, frame.size[1], frame.size[2])
        drawn == IF zoned.overlay_dirty \/ ~zoned.static_overlay.built
                 THEN generate_static_overlay(zoned, frame.size[1], frame.size[2])
                 ELSE zoned
        g     == [drawn EXCEPT !.frame_toggle = next_frame_toggle(@)]
        hand  == hand_detected(g, frame.skin)
        h     == IF hand
                 THEN [g EXCEPT !.flash_counter = IF g.flash_event THEN @ ELSE 6,
                                !.flash_event = TRUE,
                                !.warning_text = "HAND_DETECTED",
                                !.last_motion_time = t]
                 ELSE g
        hlog  == IF hand THEN <<"HAND_DETECTED">> ELSE <<>>
        mw    == motion_warning(h, frame.motion)
    IN  IF ~g.frame_toggle
        THEN [view |-> update_status_label(g, t), events |-> <<>>, did |-> "skip"]
        ELSE IF motion_suppressed(hand)
        THEN [view |-> update_status_label(h, t), events |-> hlog, did |-> "detect"]
        ELSE IF h.prev_frame = 0
        THEN [view   |-> [h EXCEPT !.prev_frame = frame.blur],
              events |-> hlog, did |-> "detect"]
        ELSE [view   |-> update_status_label(
                            [h EXCEPT !.warning_text = IF mw # "" THEN mw ELSE @,
                                      !.last_motion_time = IF mw # "" THEN t ELSE @,
                                      !.prev_frame = frame.blur], t),
              events |-> hlog \o (IF mw # "" THEN <<mw>> ELSE <<>>),
              did    |-> "detect"]

frame_motor_stops_on_alert(m, events) ==
    IF events # <<>> THEN set_speed(m, 0) ELSE m

\* The motor after update_frame: the only use of self.motor in update_frame
\* is the reading of in_emergency.
frame_motor(m, events) == m

\* flash_background, the interval a hand alert schedules.
flash_background(v) ==
    IF v.flash_counter > 0
    THEN [v EXCEPT !.flash_counter = @ - 1]
    ELSE [v EXCEPT !.flash_event = FALSE]

\* ------------------------------------------------------------ inputs

\* Arguments of set_speed: below, at and above the clamp, and one value in
\* each band of the temperature and slow-down logic.
SpeedInputs == {-5, 0, 20, 50, 100, 130}

\* Draws of np.random.uniform(-1, 1), in thousandths.
Fluctuations == {-1000, 0, 999}

\* ------------------------------------------------------------ SpecMotor
\* The MotorSimulator alone, its methods called in any order.

RECURSIVE Repeat(_, _, _)
\* m after k rounds of set_speed(p) followed by update.
Repeat(m, p, k) ==
    IF k = 0 THEN m
    ELSE IF k = 1 THEN update(set_speed(m, p), 0)
    ELSE LET half == Repeat(m, p, k \div 2)
         IN  \* the test evaluates half before the second half is unfolded
             IF half.temperature >= 0
             THEN Repeat(half, p, k - (k \div 2))
             ELSE half

\* States the motor reaches from construction: k rounds at full speed
\* (94 rounds end just below 60 degrees, 123 at the 70 degree clamp),
\* and rounds at rest (50 end at 26 degrees, 1349 just above 0 degrees);
\* 2 rounds at half speed then 4 at rest end at 27.02 degrees; 95 rounds at
\* full speed then 12 at 20 percent end at 60.01 degrees, the slow-down on.
MotorStarts ==
    {MotorInit}
    \cup {Repeat(MotorInit, 100, k) : k \in {26, 94, 122}}
    \cup {Repeat(MotorInit, 0, k) : k \in {50, 1349}}
    \cup {Repeat(Repeat(MotorInit, 50, 2), 0, 4)}
    \cup {Repeat(Repeat(MotorInit, 100, 95), 20, 12)}

MotorOnlyInit ==
    /\ motor \in MotorStarts
    /\ log = <<>>
    /\ ticks = 0
    /\ screen = ScreenInit
    /\ clock = ClockInit
    /\ switch_on = FALSE
    /\ seen_off = FALSE
    /\ view = ViewInit
    /\ now = StartTime
    /\ remote = RemoteIdle
    /\ runtime = RuntimeInit
    /\ disk = DiskInit
    /\ last_tick = "none"

SetSpeed(p) ==
    /\ motor' = set_speed(motor, p)
    /\ log' = <<>>
    /\ UNCHANGED <<ticks, screenVars>>

EnableMotor ==
    /\ motor' = enable_motor(motor)
    /\ log' = <<>>
    /\ UNCHANGED <<ticks, screenVars>>

DisableMotor ==
    /\ motor' = disable_motor(motor)
    /\ log' = <<>>
    /\ UNCHANGED <<ticks, screenVars>>

ToggleDigital ==
    /\ motor' = toggle_digital(motor)
    /\ log' = <<>>
    /\ UNCHANGED <<ticks, screenVars>>

EnterEmergency ==
    /\ motor' = enter_emergency(motor)
    /\ log' = <<>>
    /\ UNCHANGED <<ticks, screenVars>>

ExitEmergency ==
    /\ motor' = exit_emergency(motor)
    /\ log' = <<>>
    /\ UNCHANGED <<ticks, screenVars>>

CompletePostEmergency ==
    /\ motor' = complete_post_emergency(motor)
    /\ log' = <<>>
    /\ UNCHANGED <<ticks, screenVars>>

Update ==
    /\ ticks < MaxTicks
    /\ \E rnd \in Fluctuations : motor' = update(motor, rnd)
    /\ log' = update_events(motor)
    /\ ticks' = ticks + 1
    /\ UNCHANGED screenVars

MotorNext ==
    \/ \E p \in SpeedInputs : SetSpeed(p)
    \/ EnableMotor
    \/ DisableMotor
    \/ ToggleDigital
    \/ EnterEmergency
    \/ ExitEmergency
    \/ CompletePostEmergency
    \/ Update

SpecMotor == MotorOnlyInit /\ [][MotorNext]_vars

\* C1: from enter_emergency until complete_post_emergency, that is, while
\* the motor is in Emergency or PostEmergency, the PWM duty is 0 after every
\* operation, whatever set_speed, toggle_digital, enable_motor, disable_motor,
\* exit_emergency and update calls are made.
C1_OutputZeroWhileLocked ==
    (motor.in_emergency \/ motor.post_emergency) => motor.pwm = 0

\* A locked motor that has been re-enabled and commanded to a speed, after an
\* update tick.
C1_Witness ==
    /\ motor.post_emergency
    /\ motor.enabled
    /\ motor.set_speed_percent > 0
    /\ ticks > 0

\* C9: after every update, 0 <= current_rpm <= MAX_RPM and
\* 0 <= temperature <= 70 degrees, for any sequence of set_speed calls.
C9_RangesHold ==
    /\ 0 <= motor.current_rpm /\ motor.current_rpm <= MAX_RPM
    /\ 0 <= motor.temperature /\ motor.temperature <= 70000

\* An update has clamped the temperature at 70 degrees with the motor turning.
C9_Witness ==
    /\ ticks > 0
    /\ motor.temperature = 70000
    /\ motor.current_rpm > 0

\* The motor is in neither Emergency nor PostEmergency.
Normal == ~motor.in_emergency /\ ~motor.post_emergency

\* C11: an update tick that brings the temperature to 60 degrees or more
\* while slow_down is false sets slow_down and logs exactly one TEMP_HIGH
\* event; a tick logs TEMP_HIGH only when the temperature was below 60 before
\* it and slow_down was false, so not again while the temperature stays at 60
\* or above.
C11_TempHighOncePerExcursion ==
    [][ ticks' = ticks + 1
        => /\ (~motor.slow_down /\ motor'.temperature >= 60000)
                 => motor'.slow_down /\ log' = <<"TEMP_HIGH">>
           /\ log' # <<>>
                 => /\ log' = <<"TEMP_HIGH">>
                    /\ ~motor.slow_down
                    /\ motor.temperature < 60000
                    /\ motor'.temperature >= 60000
           /\ ~motor'.slow_down => motor'.temperature < 60000 ]_vars

\* The second tick of an excursion: the slow-down is on, nothing is logged.
C11_Witness ==
    /\ ticks >= 2
    /\ motor.slow_down
    /\ motor.temperature >= 60000
    /\ motor.temperature < 61000
    /\ log = <<>>

\* C12: set_speed(p) stores min(100, max(0, p)); set_speed_percent is within
\* [0, 100] after every step; a positive stored value becomes the last
\* nonzero speed, and set_speed(0) leaves the last nonzero speed unchanged.
C12_SetSpeedClamps ==
    [][ /\ motor'.set_speed_percent \in 0..100
        /\ \A p \in SpeedInputs :
              SetSpeed(p)
              => LET stored == IF p < 0 THEN 0 ELSE IF p > 100 THEN 100 ELSE p
                 IN  /\ motor'.set_speed_percent = stored
                     /\ motor'.last_nonzero_speed =
                           IF stored > 0 THEN stored
                           ELSE motor.last_nonzero_speed ]_vars

\* set_speed(0), or a negative speed, has been stored after a nonzero one.
C12_Witness ==
    /\ motor.set_speed_percent = 0
    /\ motor.last_nonzero_speed = 100
    /\ motor.pwm = 0
    /\ motor.enabled /\ Normal
    /\ ~motor.digitally_toggled_off
    /\ ticks = 0

\* C13: disable_motor forces the PWM duty to 0 and leaves set_speed_percent
\* and the last nonzero speed unchanged; set_speed while disabled stores the
\* speed with the PWM kept at 0; enable_motor in Normal state drives the PWM
\* at the stored set_speed_percent.
C13_DisableKeepsCommand ==
    [][ /\ DisableMotor
           => /\ motor'.pwm = 0
              /\ ~motor'.enabled
              /\ motor'.set_speed_percent = motor.set_speed_percent
              /\ motor'.last_nonzero_speed = motor.last_nonzero_speed
        /\ \A p \in SpeedInputs :
              SetSpeed(p) /\ ~motor.enabled
              => /\ motor'.pwm = 0
                 /\ motor'.set_speed_percent = Max(0, Min(100, p))
        /\ EnableMotor /\ Normal
           => /\ motor'.pwm = motor.set_speed_percent
              /\ motor'.set_speed_percent = motor.set_speed_percent ]_vars

\* A disabled motor in Normal state holds a speed that was never driven: the
\* motor has not turned.
C13_Witness ==
    /\ ~motor.enabled /\ Normal
    /\ motor.set_speed_percent = 50
    /\ motor.last_nonzero_speed = 50
    /\ motor.pwm = 0
    /\ motor.current_rpm = 0
    /\ ticks = 0

\* C14: in Normal state with the motor enabled, toggle_digital at a speed
\* s > 0 sets set_speed_percent to 0 and remembers s; at speed 0 it sets
\* set_speed_percent to the last nonzero speed, or to 30 when none was
\* recorded; two toggles in a row from s > 0 return the speed to s.
C14_ToggleStashesAndRestores ==
    [][ /\ (ToggleDigital /\ Normal /\ motor.enabled)
           => IF motor.set_speed_percent > 0
              THEN /\ motor'.set_speed_percent = 0
                   /\ motor'.last_nonzero_speed = motor.set_speed_percent
              ELSE motor'.set_speed_percent =
                      IF motor.last_nonzero_speed # 0
                      THEN motor.last_nonzero_speed ELSE 30
        /\ (Normal /\ motor.enabled /\ motor.set_speed_percent > 0)
           => toggle_digital(toggle_digital(motor)).set_speed_percent
                 = motor.set_speed_percent ]_vars

\* The toggle has stopped the motor from a speed other than the default.
C14_Witness ==
    /\ motor.digitally_toggled_off
    /\ motor.set_speed_percent = 0
    /\ motor.last_nonzero_speed = 50
    /\ motor.enabled /\ Normal

\* C15: toggle_digital in Emergency or PostEmergency leaves
\* set_speed_percent, the last nonzero speed, the PWM duty, enabled,
\* in_emergency and post_emergency unchanged.
C15_ToggleNoOpWhenLocked ==
    [][ (ToggleDigital /\ ~Normal)
        => /\ motor'.set_speed_percent = motor.set_speed_percent
           /\ motor'.last_nonzero_speed = motor.last_nonzero_speed
           /\ motor'.pwm = motor.pwm
           /\ motor'.enabled = motor.enabled
           /\ motor'.in_emergency = motor.in_emergency
           /\ motor'.post_emergency = motor.post_emergency ]_vars

\* A motor in Emergency, re-enabled, that still holds its nonzero speed with
\* the toggle flag clear.
C15_Witness ==
    /\ motor.in_emergency
    /\ motor.set_speed_percent > 0
    /\ motor.enabled
    /\ ~motor.digitally_toggled_off
    /\ motor.last_nonzero_speed = motor.set_speed_percent

\* C23: the alarm is on exactly while the motor is in Emergency:
\* alarm_on = in_emergency after every step; enter_emergency turns it on,
\* exit_emergency turns it off, and no other operation changes it.
C23_AlarmFollowsEmergency ==
    [][ /\ motor'.alarm_on = motor'.in_emergency
        /\ EnterEmergency => motor'.alarm_on
        /\ ExitEmergency => ~motor'.alarm_on
        /\ motor'.alarm_on # motor.alarm_on
              => EnterEmergency \/ ExitEmergency ]_vars

\* The alarm is still on after the motor in Emergency was re-enabled,
\* commanded and ticked.
C23_Witness ==
    /\ motor.alarm_on
    /\ motor.in_emergency
    /\ motor.enabled
    /\ motor.set_speed_percent = 50
    /\ ticks > 0

\* C25: on an update tick that leaves the temperature at 60 degrees or more
\* the slow-down is on and set_speed_percent is lowered by exactly 1 when it
\* was above 20 and unchanged when it was at or below 20; on a tick that
\* leaves the temperature below 60 the slow-down is off and the speed is
\* unchanged.
C25_ThrottleStepsToFloor ==
    [][ ticks' = ticks + 1
        => IF motor'.temperature >= 60000
           THEN /\ motor'.slow_down
                /\ motor'.set_speed_percent =
                      IF motor.set_speed_percent > 20
                      THEN motor.set_speed_percent - 1
                      ELSE motor.set_speed_percent
           ELSE /\ ~motor'.slow_down
                /\ motor'.set_speed_percent = motor.set_speed_percent ]_vars

\* The slow-down at its floor: the temperature is still at 60 or more and the
\* speed stays at 20.
C25_Witness ==
    /\ ticks >= 2
    /\ motor.slow_down
    /\ motor.temperature >= 60000
    /\ motor.set_speed_percent = 20
    /\ motor.original_speed_percent > 20

\* C26: update never raises set_speed_percent: the tick that ends a
\* slow-down, and every later tick, leaves the speed at the throttled value,
\* and original_speed_percent is not written back.
C26_SpeedNotRestored ==
    [][ ticks' = ticks + 1
        => /\ motor'.set_speed_percent <= motor.set_speed_percent
           /\ ~motor'.slow_down
                 => motor'.set_speed_percent = motor.set_speed_percent ]_vars

\* The slow-down has ended and a later tick has passed: the speed is still the
\* throttled 20, below the snapshot taken when the slow-down began.
C26_Witness ==
    /\ ticks >= 2
    /\ ~motor.slow_down
    /\ motor.temperature < 60000
    /\ motor.temperature > 59000
    /\ motor.set_speed_percent = 20
    /\ motor.original_speed_percent = 100

\* C27: with the commanded speed at 20 percent or less, an update tick lowers
\* a temperature above the baseline, and a temperature within one degree of
\* the baseline stays within one degree of it.
C27_CoolsToBaselineBand ==
    [][ (ticks' = ticks + 1 /\ motor.set_speed_percent <= 20
                            /\ motor'.set_speed_percent <= 20)
        => /\ motor.temperature > BASELINE_TEMP + 1000
                 => motor'.temperature < motor.temperature
           /\ Abs(motor.temperature - BASELINE_TEMP) <= 1000
                 => Abs(motor'.temperature - BASELINE_TEMP) <= 1000 ]_vars

\* C33: in_emergency and post_emergency are never both true, whatever the
\* order of the motor operations: enter_emergency leaves Emergency only,
\* exit_emergency PostEmergency only, complete_post_emergency clears
\* PostEmergency and does not touch in_emergency.
C33_OneModeAtATime ==
    [][ /\ ~(motor'.in_emergency /\ motor'.post_emergency)
        /\ EnterEmergency => motor'.in_emergency /\ ~motor'.post_emergency
        /\ ExitEmergency => motor'.post_emergency /\ ~motor'.in_emergency
        /\ CompletePostEmergency
              => /\ ~motor'.post_emergency
                 /\ motor'.in_emergency = motor.in_emergency ]_vars

\* Emergency entered again from PostEmergency: alarm on, the driver disabled
\* by enter_emergency, a speed commanded before.
C33_Witness ==
    /\ motor.in_emergency
    /\ ~motor.post_emergency
    /\ ~motor.enabled
    /\ motor.digitally_toggled_off
    /\ motor.last_nonzero_speed > 0

\* C35: the PWM duty is 0 or set_speed_percent, and 0 whenever the driver is
\* disabled.
C35_DutyIsZeroOrCommand ==
    /\ motor.pwm \in {0, motor.set_speed_percent}
    /\ ~motor.enabled => motor.pwm = 0

\* The duty follows the command down during a thermal slow-down.
C35_Witness ==
    /\ ticks > 0
    /\ motor.enabled
    /\ motor.slow_down
    /\ motor.pwm = motor.set_speed_percent
    /\ motor.pwm < motor.original_speed_percent
    /\ motor.pwm > 20

RampInit ==
    /\ motor = set_speed(MotorInit, 100)
    /\ log = <<>>
    /\ ticks = 0
    /\ screen = ScreenInit
    /\ clock = ClockInit
    /\ switch_on = FALSE
    /\ seen_off = FALSE
    /\ view = ViewInit
    /\ now = StartTime
    /\ remote = RemoteIdle
    /\ runtime = RuntimeInit
    /\ disk = DiskInit
    /\ last_tick = "none"

RampUpdate ==
    /\ \E rnd \in Fluctuations : motor' = update(motor, rnd)
    /\ log' = update_events(motor)
    /\ UNCHANGED <<ticks, screenVars>>

RampNext == RampUpdate

SpecRamp == RampInit /\ [][RampNext]_vars

\* C10, as stated: from 0 RPM with set_speed(100) called once, current_rpm
\* never decreases from one update tick to the next and never exceeds MAX_RPM.
C10_RpmNeverDecreases ==
    [][ /\ motor'.current_rpm >= motor.current_rpm
        /\ motor'.current_rpm <= MAX_RPM ]_vars

\* C10, amended: current_rpm never exceeds MAX_RPM, and it does not decrease
\* on any tick that leaves the commanded speed at 100, that is, until the
\* thermal slow-down lowers it.
C10_RpmRisesUntilSlowDown ==
    [][ /\ motor'.current_rpm <= MAX_RPM
        /\ motor'.set_speed_percent = 100
              => motor'.current_rpm >= motor.current_rpm ]_vars

\* The ramp has settled, 3 RPM short of MAX_RPM, the speed still at 100.
C10_Witness ==
    /\ motor.set_speed_percent = 100
    /\ motor.current_rpm = MAX_RPM - 3
    /\ motor.temperature > BASELINE_TEMP



\* ------------------------------------------------------------ SpecSettle
\* A speed commanded once and then update ticks only, for ever: half speed
\* on a new motor, and rest commanded after 26 ticks at full speed.

SettleInit ==
    /\ motor \in { set_speed(MotorInit, 50),
                   set_speed(Repeat(MotorInit, 100, 26), 0) }
    /\ log = <<>>
    /\ ticks = 0
    /\ screen = ScreenInit
    /\ clock = ClockInit
    /\ switch_on = FALSE
    /\ seen_off = FALSE
    /\ view = ViewInit
    /\ now = StartTime
    /\ remote = RemoteIdle
    /\ runtime = RuntimeInit
    /\ disk = DiskInit
    /\ last_tick = "none"

SpecSettle == SettleInit /\ [][RampNext]_vars /\ WF_vars(RampUpdate)

\* C37: on an update tick that leaves the commanded speed as it was, a gap
\* between current_rpm and the target of 3 or less stays as it is, and a gap
\* of 4 or more shrinks but not below 3, so current_rpm never becomes equal
\* to the target; and current_rpm ends within 3 of set_rpm for good.
C37_RpmSettlesShortOfTarget ==
    /\ [][ motor'.set_speed_percent = motor.set_speed_percent
           => LET target == motor'.set_rpm
                  gap    == Abs(target - motor.current_rpm)
                  after  == Abs(target - motor'.current_rpm)
              IN  /\ gap <= 3 => motor'.current_rpm = motor.current_rpm
                  /\ gap >= 4 => after < gap /\ after >= 3 ]_vars
    /\ <>[](Abs(motor.set_rpm - motor.current_rpm) <= 3)

\* After set_speed(0) from about 2000 RPM the ramp has stopped at 3 RPM.
C37_Witness ==
    /\ motor.set_speed_percent = 0
    /\ motor.set_rpm = 0
    /\ motor.current_rpm = 3

\* ------------------------------------------------------------ Spec
\* The application: the motor driven through the screen's handlers, the
\* Clock's events and the Blynk handlers, each handler run as one step.

\* Arguments of the Blynk speed slider V5.
RemoteSpeeds == {<<>>, <<120>>}

\* Arguments of the Blynk switches V3 and V4.
RemoteSwitches == {<<>>, <<0>>, <<1>>}

\* Positions of the manual slider.
SliderValues == {70}

\* Preset buttons: Medium (Slow is 20, Fast is 90).
Presets == {50}

Init ==
    /\ motor = MotorInit
    /\ log = <<>>
    /\ ticks = 0
    /\ screen = ScreenInit
    /\ clock = ClockInit
    /\ switch_on \in BOOLEAN
    /\ seen_off = FALSE
    /\ view = ViewInit
    /\ now = StartTime
    /\ remote = RemoteIdle
    /\ runtime = RuntimeInit
    /\ disk = DiskInit
    /\ last_tick = "none"

\* The operator flips the physical motor switch.
SwitchFlip ==
    /\ switch_on' = ~switch_on
    /\ log' = <<>>
    /\ UNCHANGED <<motor, ticks, screen, clock, seen_off, cameraVars, threadVars, storeVars>>

OnSpeedButton(percent) ==
    /\ screen.widgets = "live"
    /\ motor' = on_speed_button(switch_on, motor, screen, percent)
    /\ log' = <<>>
    /\ UNCHANGED <<ticks, screenVars>>

OnDigToggle ==
    /\ screen.widgets = "live"
    /\ motor' = on_dig_toggle(switch_on, motor, screen)
    /\ log' = <<>>
    /\ UNCHANGED <<ticks, screenVars>>

OpenManualOverride ==
    /\ screen.widgets = "live"
    /\ screen' = IF command_allowed(switch_on, motor, screen)
                 THEN [screen EXCEPT !.manual_overlay = TRUE]
                 ELSE screen
    /\ log' = <<>>
    /\ UNCHANGED <<motor, ticks, clock, switch_on, seen_off, cameraVars, threadVars, storeVars>>

CloseManualOverride ==
    /\ screen.manual_overlay
    /\ screen' = [screen EXCEPT !.manual_overlay = FALSE]
    /\ log' = <<>>
    /\ UNCHANGED <<motor, ticks, clock, switch_on, seen_off, cameraVars, threadVars, storeVars>>

OnManualSlider(val) ==
    /\ screen.manual_overlay
    /\ motor' = on_manual_slider(switch_on, motor, screen, val)
    /\ log' = <<>>
    /\ UNCHANGED <<ticks, screenVars>>

\* on_touch_down on the Hold To Start button.  Two presses within the same
\* half second are not told apart.
OnTouchDownHold ==
    /\ HOLD_DELAY \notin clock.confirm_start
    /\ IF hold_accepted(switch_on, motor)
       THEN /\ clock' = [clock EXCEPT !.confirm_start = @ \cup {HOLD_DELAY}]
            /\ screen' = [screen EXCEPT !.hold_event = TRUE]
       ELSE UNCHANGED <<clock, screen>>
    /\ log' = <<>>
    /\ UNCHANGED <<motor, ticks, switch_on, seen_off, cameraVars, threadVars, storeVars>>

\* on_touch_up: _hold_event is the event scheduled last, the one with the
\* most time left while it is pending.
OnTouchUp ==
    /\ IF screen.hold_event
       THEN /\ clock' = [clock EXCEPT !.confirm_start =
                            IF @ = {} THEN @ ELSE @ \ {SetMax(@)}]
            /\ screen' = [screen EXCEPT !.hold_event = FALSE]
       ELSE UNCHANGED <<clock, screen>>
    /\ log' = <<>>
    /\ UNCHANGED <<motor, ticks, switch_on, seen_off, cameraVars, threadVars, storeVars>>

ConfirmStart ==
    /\ 0 \in clock.confirm_start
    /\ clock' = [clock EXCEPT !.confirm_start = @ \ {0}]
    /\ screen' = [screen EXCEPT !.start_confirmed = TRUE]
    /\ log' = <<>>
    /\ UNCHANGED <<motor, ticks, switch_on, seen_off, cameraVars, threadVars, storeVars>>

UpdateStatusBar ==
    /\ screen.ticks_scheduled
    /\ motor' = update_status_bar(switch_on, motor)
    /\ seen_off' = (seen_off \/ ~switch_on)
    /\ log' = <<>>
    /\ UNCHANGED <<ticks, screen, clock, switch_on, cameraVars, threadVars, storeVars>>

UpdateMotorStatus ==
    /\ screen.ticks_scheduled
    /\ ticks < MaxAppTicks
    /\ \E rnd \in Fluctuations : motor' = update(motor, rnd)
    /\ log' = update_events(motor)
    /\ ticks' = ticks + 1
    /\ UNCHANGED screenVars

\* activate_emergency on the screen shown.
activate_emergency_screen(sc) ==
    [sc EXCEPT !.manual_overlay = FALSE,
               !.widgets = "emergency",
               !.ticks_scheduled = FALSE]

ActivateEmergencyEffect ==
    /\ motor' = enter_emergency(motor)
    /\ screen' = activate_emergency_screen(screen)
    /\ log' = <<"EMERGENCY_STOP">>
    /\ UNCHANGED <<ticks, switch_on, seen_off, cameraVars, threadVars, storeVars>>

\* The EMERGENCY STOP button.
ActivateEmergency ==
    /\ screen.widgets = "live"
    /\ ActivateEmergencyEffect
    /\ clock' = [clock EXCEPT !.countdown = @ \cup {LOCKOUT_DELAY}]

\* handle_emergency_button: schedules activate_emergency of the screen shown.
HandleEmergencyButton(value) ==
    /\ Cardinality(clock.countdown) < MaxCountdowns
    /\ clock' = IF handle_emergency_button(value)
                THEN [clock EXCEPT !.emergency = @ \cup {"live"}]
                ELSE clock
    /\ log' = <<>>
    /\ UNCHANGED <<motor, ticks, screen, switch_on, seen_off, cameraVars, threadVars, storeVars>>

\* The scheduled activate_emergency runs, on the screen shown ...
RunEmergencyLive ==
    /\ "live" \in clock.emergency
    /\ ActivateEmergencyEffect
    /\ clock' = [clock EXCEPT !.emergency = @ \ {"live"},
                              !.countdown = @ \cup {LOCKOUT_DELAY}]

\* ... or on a screen that do_reset_after_delay has replaced meanwhile: the
\* motor is shared, the panel and the countdown are those of the old screen.
RunEmergencyStale ==
    /\ "stale" \in clock.emergency
    /\ motor' = enter_emergency(motor)
    /\ clock' = [clock EXCEPT !.emergency = @ \ {"stale"}]
    /\ log' = <<"EMERGENCY_STOP">>
    /\ UNCHANGED <<ticks, screen, switch_on, seen_off, cameraVars, threadVars, storeVars>>

EnableEmergencyTouch ==
    /\ 0 \in clock.countdown
    /\ clock' = [clock EXCEPT !.countdown = @ \ {0}]
    /\ screen' = [screen EXCEPT !.emergency_touch_enabled = TRUE,
                                !.touch_bound = TRUE]
    /\ log' = <<>>
    /\ UNCHANGED <<motor, ticks, switch_on, seen_off, cameraVars, threadVars, storeVars>>

\* reset_from_emergency: whether the touch is accepted.
reset_accepted(sc) == sc.touch_bound /\ sc.emergency_touch_enabled

\* A touch anywhere on root_layout.
TouchScreen ==
    /\ IF reset_accepted(screen)
       THEN /\ screen' = [screen EXCEPT !.touch_bound = FALSE]
            /\ clock' = [clock EXCEPT !.reset = @ \cup {RESET_DELAY}]
       ELSE UNCHANGED <<screen, clock>>
    /\ log' = <<>>
    /\ UNCHANGED <<motor, ticks, switch_on, seen_off, cameraVars, threadVars, storeVars>>

\* do_reset_after_delay of the screen shown: Post-Emergency, and a fresh
\* LiveViewScreen replaces this one; the events still pending for this screen
\* act on the replaced screen from now on.
DoResetAfterDelay ==
    /\ 0 \in clock.reset
    /\ motor' = exit_emergency(motor)
    /\ screen' = ScreenInit
    /\ clock' = [ confirm_start |-> {},
                  countdown     |-> {},
                  reset         |-> {},
                  stale_reset   |-> clock.stale_reset \cup (clock.reset \ {0}),
                  emergency     |-> IF clock.emergency = {} THEN {}
                                    ELSE {"stale"} ]
    /\ seen_off' = FALSE
    /\ log' = <<>>
    /\ UNCHANGED <<ticks, switch_on, cameraVars, threadVars, storeVars>>

\* do_reset_after_delay of a replaced screen.
DoResetStale ==
    /\ 0 \in clock.stale_reset
    /\ motor' = exit_emergency(motor)
    /\ clock' = [clock EXCEPT !.stale_reset = @ \ {0}]
    /\ seen_off' = FALSE
    /\ log' = <<>>
    /\ UNCHANGED <<ticks, screen, switch_on, cameraVars, threadVars, storeVars>>

HandleSpeedSlider(value) ==
    /\ motor' = handle_speed_slider(switch_on, motor, value)
    /\ log' = <<>>
    /\ UNCHANGED <<ticks, screenVars>>

HandleDigToggle(value) ==
    /\ motor' = handle_dig_toggle(switch_on, motor, value)
    /\ log' = <<>>
    /\ UNCHANGED <<ticks, screenVars>>

\* Half a second passes: no event is due, and every pending one comes closer.
Elapse(S) == {r - 1 : r \in S}

Advance ==
    /\ 0 \notin clock.confirm_start \cup clock.countdown
                 \cup clock.reset \cup clock.stale_reset
    /\ clock.emergency = {}
    /\ clock' = [ confirm_start |-> Elapse(clock.confirm_start),
                  countdown     |-> Elapse(clock.countdown),
                  reset         |-> Elapse(clock.reset),
                  stale_reset   |-> Elapse(clock.stale_reset),
                  emergency     |-> {} ]
    /\ log' = <<>>
    /\ UNCHANGED <<motor, ticks, screen, switch_on, seen_off, cameraVars, threadVars, storeVars>>

Next ==
    \/ SwitchFlip
    \/ \E p \in Presets : OnSpeedButton(p)
    \/ OnDigToggle
    \/ OpenManualOverride
    \/ CloseManualOverride
    \/ \E v \in SliderValues : OnManualSlider(v)
    \/ OnTouchDownHold
    \/ OnTouchUp
    \/ ConfirmStart
    \/ UpdateStatusBar
    \/ UpdateMotorStatus
    \/ ActivateEmergency
    \/ \E v \in RemoteSwitches : HandleEmergencyButton(v)
    \/ RunEmergencyLive
    \/ RunEmergencyStale
    \/ EnableEmergencyTouch
    \/ TouchScreen
    \/ DoResetAfterDelay
    \/ DoResetStale
    \/ \E v \in RemoteSpeeds : HandleSpeedSlider(v)
    \/ \E v \in RemoteSwitches : HandleDigToggle(v)
    \/ Advance

Spec == Init /\ [][Next]_vars

\* ------------------------------------------------------------ claims on Spec

\* A step of activate_emergency: the button, or the call a remote command
\* scheduled.
EmergencyStep == ActivateEmergency \/ RunEmergencyLive \/ RunEmergencyStale

\* C2: an emergency trigger is accepted in every state: a remote command of
\* value 1 schedules activate_emergency, and every run of activate_emergency
\* leaves the motor in Emergency with the PWM duty at 0 and the driver
\* disabled.
C2_EmergencyAlwaysAccepted ==
    [][ /\ HandleEmergencyButton(<<1>>) => clock'.emergency # {}
        /\ EmergencyStep => /\ motor'.in_emergency
                            /\ motor'.pwm = 0
                            /\ ~motor'.enabled ]_vars

\* An emergency taken with the switch off and no hold-confirmation.
C2_Witness ==
    /\ motor.in_emergency
    /\ log = <<"EMERGENCY_STOP">>
    /\ ~switch_on
    /\ ~screen.start_confirmed

\* A step that takes the motor from PostEmergency to Normal.
PostEmergencyCleared ==
    motor.post_emergency /\ ~motor'.post_emergency /\ ~motor'.in_emergency

\* C3: PostEmergency is cleared only when the switch was read off by a status
\* poll since PostEmergency was entered (and is read on by the clearing poll).
C3_ClearedOnlyOnEdge == [][PostEmergencyCleared => seen_off]_vars

\* The condition the spec puts on every local command.
LocalGate ==
    /\ switch_on
    /\ ~motor.in_emergency /\ ~motor.post_emergency
    /\ screen.start_confirmed

\* A step of a preset button, the dig toggle or the manual slider.
LocalCommandStep ==
    \/ \E p \in Presets : OnSpeedButton(p)
    \/ OnDigToggle
    \/ \E v \in SliderValues : OnManualSlider(v)

\* C4: a local speed-preset, dig-toggle or manual-slider command issued while
\* the switch is off, or in Emergency or PostEmergency, or before the
\* hold-confirmation, leaves the motor unchanged.
C4_LocalCommandsGated == [][LocalCommandStep /\ ~LocalGate => motor' = motor]_vars

\* The Medium preset has been applied after a hold-confirmation.
C4_Witness ==
    /\ screen.start_confirmed
    /\ motor.set_speed_percent = 50
    /\ motor.pwm = 50

\* A step of the Blynk speed slider or dig toggle.
RemoteCommandStep ==
    \/ \E v \in RemoteSpeeds : HandleSpeedSlider(v)
    \/ \E v \in RemoteSwitches : HandleDigToggle(v)

InLockout == \E r \in clock.countdown : r > 0

\* A step that schedules do_reset_after_delay.
ResetStarted == RESET_DELAY \in clock'.reset /\ RESET_DELAY \notin clock.reset

\* C6: during the 2 seconds that follow any emergency trigger no touch starts
\* a reset and the motor stays in Emergency.
C6_NoResetDuringLockout ==
    [][InLockout /\ motor.in_emergency
          => ~ResetStarted /\ motor'.in_emergency]_vars

\* C7: the motor leaves Emergency only into PostEmergency with the output at
\* 0, only by the reset an acknowledgement started, and not during the 2
\* seconds that follow an emergency trigger.
C7_LeavesOnlyAfterLockout ==
    [][ (motor.in_emergency /\ ~motor'.in_emergency)
           => /\ motor'.post_emergency
              /\ motor'.pwm = 0
              /\ 0 \in clock.reset \cup clock.stale_reset
              /\ ~InLockout ]_vars

\* C8: when PostEmergency is cleared after the switch was read off and then
\* on, set_speed_percent is the last nonzero commanded speed and the PWM is
\* driven at it.
C8_SpeedRestoredOnClear ==
    [][PostEmergencyCleared /\ seen_off /\ motor.last_nonzero_speed > 0
          => /\ motor'.set_speed_percent = motor.last_nonzero_speed
             /\ motor'.pwm = motor.last_nonzero_speed]_vars

\* C24: a release of the Hold To Start button before the second has passed
\* cancels the pending confirmation: after on_touch_up no confirm_start is
\* scheduled, so start_confirmed can only follow an uninterrupted hold.
C24_ReleaseCancelsConfirmation ==
    [][OnTouchUp => clock'.confirm_start = {}]_vars

\* C34: with the motor driven only through the screen's handlers and ticks,
\* the driver is disabled whenever the motor is in Emergency or in
\* PostEmergency; so complete_post_emergency is always called with enabled
\* false, and it leaves the commanded speed as it was and the PWM at 0.
C34_DisabledWhileLocked ==
    [][ /\ (motor'.in_emergency \/ motor'.post_emergency) => ~motor'.enabled
        /\ PostEmergencyCleared
              => /\ ~motor.enabled
                 /\ ~motor'.enabled
                 /\ motor'.set_speed_percent = motor.set_speed_percent
                 /\ motor'.pwm = 0 ]_vars

\* Right after complete_post_emergency on the screen created by the reset:
\* Normal, the switch on and never read off, the driver still disabled and
\* the PWM at 0 with a speed of 100 commanded before the emergency.
C34_Witness ==
    /\ ~motor.in_emergency
    /\ ~motor.post_emergency
    /\ ~motor.enabled
    /\ ~seen_off
    /\ switch_on
    /\ motor.last_nonzero_speed = 100
    /\ motor.pwm = 0

\* C39: the PWM duty is nonzero only if confirm_start has run on the live
\* screen shown now, that is, since start-up or since the last emergency
\* reset created it.
C39_DriveNeedsHoldConfirmation ==
    motor.pwm # 0 => screen.start_confirmed

\* ------------------------------------------------------------ SpecRace
\* The Blynk thread next to the Kivy main thread.  MotionApp.build starts
\* blynk.run in a thread of its own, and handle_speed_slider and
\* handle_dig_toggle call set_speed and toggle_digital on that thread, with
\* no lock and no hand-over to the Clock.  A handler is taken one shared
\* access at a time: its checks, the store of the percent, the reading of the
\* gate of set_speed, the ChangeDutyCycle call.  The main thread's handlers
\* run between these steps, each one as a whole.

RemoteSpeedBegin(value) ==
    /\ remote.pc = "idle"
    /\ remote' = IF Len(value) # 0 /\ remote_allowed(switch_on, motor)
                 THEN [pc |-> "store", percent |-> Max(0, Min(100, value[1])),
                       duty |-> 0, flag |-> "none"]
                 ELSE RemoteIdle
    /\ log' = <<>>
    /\ UNCHANGED <<motor, ticks, screen, clock, switch_on, seen_off, cameraVars, storeVars>>

RemoteToggleBegin(value) ==
    /\ remote.pc = "idle"
    /\ remote' = IF /\ Len(value) # 0
                    /\ value[1] = 1
                    /\ remote_allowed(switch_on, motor)
                 THEN [RemoteIdle EXCEPT !.pc = "toggle"]
                 ELSE RemoteIdle
    /\ log' = <<>>
    /\ UNCHANGED <<motor, ticks, screen, clock, switch_on, seen_off, cameraVars, storeVars>>

\* toggle_digital up to its call of set_speed.
RemoteToggleBranch ==
    /\ remote.pc = "toggle"
    /\ IF /\ motor.set_speed_percent > 0
          /\ ~motor.in_emergency
          /\ ~motor.post_emergency
       THEN /\ motor' = [motor EXCEPT
                            !.last_nonzero_speed = motor.set_speed_percent]
            /\ remote' = [pc |-> "store", percent |-> 0, duty |-> 0,
                          flag |-> "off"]
       ELSE IF motor.enabled /\ ~motor.in_emergency /\ ~motor.post_emergency
       THEN /\ motor' = motor
            /\ remote' = [pc |-> "store",
                          percent |-> IF motor.last_nonzero_speed = 0
                                      THEN 30
                                      ELSE motor.last_nonzero_speed,
                          duty |-> 0, flag |-> "on"]
       ELSE /\ motor' = [motor EXCEPT !.digitally_toggled_off = FALSE]
            /\ remote' = RemoteIdle
    /\ log' = <<>>
    /\ UNCHANGED <<ticks, screen, clock, switch_on, seen_off, cameraVars, storeVars>>

RemoteStore ==
    /\ remote.pc = "store"
    /\ motor' = set_speed_store(motor, remote.percent)
    /\ remote' = [remote EXCEPT !.pc = "gate"]
    /\ log' = <<>>
    /\ UNCHANGED <<ticks, screen, clock, switch_on, seen_off, cameraVars, storeVars>>

\* The condition of set_speed is read ...
RemoteGate ==
    /\ remote.pc = "gate"
    /\ remote' = [remote EXCEPT !.pc = "drive",
                                !.duty = set_speed_duty(motor, remote.percent)]
    /\ log' = <<>>
    /\ UNCHANGED <<motor, ticks, screen, clock, switch_on, seen_off, cameraVars, storeVars>>

\* ... and the branch it selected calls ChangeDutyCycle.
RemoteDrive ==
    /\ remote.pc = "drive"
    /\ motor' = [motor EXCEPT !.pwm = remote.duty]
    /\ remote' = IF remote.flag = "none"
                 THEN RemoteIdle
                 ELSE [remote EXCEPT !.pc = "finish"]
    /\ log' = <<>>
    /\ UNCHANGED <<ticks, screen, clock, switch_on, seen_off, cameraVars, storeVars>>

\* toggle_digital after set_speed has returned.
RemoteFinish ==
    /\ remote.pc = "finish"
    /\ motor' = [motor EXCEPT !.digitally_toggled_off = (remote.flag = "off")]
    /\ remote' = RemoteIdle
    /\ log' = <<>>
    /\ UNCHANGED <<ticks, screen, clock, switch_on, seen_off, cameraVars, storeVars>>

RaceNext ==
    \/ SwitchFlip
    \/ UpdateStatusBar
    \/ ActivateEmergency
    \/ EnableEmergencyTouch
    \/ TouchScreen
    \/ DoResetAfterDelay
    \/ Advance
    \/ \E v \in RemoteSpeeds : RemoteSpeedBegin(v)
    \/ \E v \in RemoteSwitches : RemoteToggleBegin(v)
    \/ RemoteToggleBranch
    \/ RemoteStore
    \/ RemoteGate
    \/ RemoteDrive
    \/ RemoteFinish

SpecRace == Init /\ [][RaceNext]_vars

\* C22: however a remote speed or toggle command on the Blynk thread
\* interleaves with an emergency trigger on the main thread, a nonzero PWM
\* duty cycle is never left standing while the motor is in Emergency or in
\* Post-Emergency.
C22_RemoteNeverDrivesLocked ==
    motor.pwm # 0 => ~motor.in_emergency /\ ~motor.post_emergency

\* ------------------------------------------------------------ SpecZones
\* The zone geometry: the sliders of the SettingsScreen move the zone
\* parameters within their ranges and compute_zones is applied to a frame
\* size.

\* Slider positions, within the ranges of SettingsScreen.__init__, next to
\* the defaults.
SliderPositions ==
    [ outer_width   |-> {101, 400, 600},
      outer_height  |-> {100, 300},
      inner_width   |-> {200, 400},
      inner_height  |-> {200, 400},
      zone_offset_x |-> {-200, 0},
      zone_offset_y |-> {0, 200} ]

\* Frame sizes the capture delivers.
FrameSizes == {<<FRAME_WIDTH, FRAME_HEIGHT>>, <<320, 240>>}

ZoneInit ==
    /\ motor = MotorInit
    /\ log = <<>>
    /\ ticks = 0
    /\ screen = ScreenInit
    /\ clock = ClockInit
    /\ switch_on = FALSE
    /\ seen_off = FALSE
    /\ view = ViewInit
    /\ now = StartTime
    /\ remote = RemoteIdle
    /\ runtime = RuntimeInit
    /\ disk = DiskInit
    /\ last_tick = "none"

MoveSlider(name, value) ==
    /\ view' = update_settings(view, name, value)
    /\ UNCHANGED <<motor, log, ticks, screen, clock, switch_on, seen_off,
                   now, last_tick, threadVars, storeVars>>

ComputeZones(frame_width, frame_height) ==
    /\ view' = compute_zones(view, frame_width, frame_height)
    /\ UNCHANGED <<motor, log, ticks, screen, clock, switch_on, seen_off,
                   now, last_tick, threadVars, storeVars>>

ZoneNext ==
    \/ \E name \in DOMAIN SliderPositions :
          \E value \in SliderPositions[name] : MoveSlider(name, value)
    \/ \E size \in FrameSizes : ComputeZones(size[1], size[2])

SpecZones == ZoneInit /\ [][ZoneNext]_vars

\* C19: for all positive zone parameters and any offsets, the inner zone
\* compute_zones returns has a smaller area than the outer zone and its
\* bounding box lies inside the outer zone's bounding box.
C19_InnerInsideOuter ==
    view.outer_zone # <<>>
    => /\ Area2(view.inner_zone) < Area2(view.outer_zone)
       /\ BoxInside(view.inner_zone, view.outer_zone)

\* The zone parameters are the defaults of LiveViewScreen.__init__.
DefaultZones ==
    \A name \in DOMAIN SliderPositions : view[name] = ViewInit[name]

\* The length of the top edge and of the bottom edge of a zone, and twice the
\* x coordinate of the middle of its top edge.
TopSpan(z) == z[2][1] - z[1][1]

BottomSpan(z) == z[3][1] - z[4][1]

TopMiddle2(z) == z[1][1] + z[2][1]

\* C20, as stated: with the default parameters on a 640x480 frame the outer
\* zone's top edge spans 240 px centred at x = 320 and its bottom edge 120 px,
\* the inner zone's top edge 200 px and its bottom edge 100 px.
C20_DefaultZonesAsStated ==
    [][ (DefaultZones /\ ComputeZones(FRAME_WIDTH, FRAME_HEIGHT))
        => /\ TopSpan(view'.outer_zone) = 240
           /\ TopMiddle2(view'.outer_zone) = 2 * 320
           /\ BottomSpan(view'.outer_zone) = 120
           /\ TopSpan(view'.inner_zone) = 200
           /\ BottomSpan(view'.inner_zone) = 100 ]_vars

\* C20, amended: with the default parameters on a 640x480 frame the outer
\* zone's top edge spans 400 px centred at x = 320 and its bottom edge 200 px,
\* the inner zone's top edge 200 px centred at x = 320 and its bottom edge
\* 100 px.
C20_DefaultZones ==
    [][ (DefaultZones /\ ComputeZones(FRAME_WIDTH, FRAME_HEIGHT))
        => /\ TopSpan(view'.outer_zone) = 400
           /\ TopMiddle2(view'.outer_zone) = 2 * 320
           /\ BottomSpan(view'.outer_zone) = 200
           /\ TopSpan(view'.inner_zone) = 200
           /\ TopMiddle2(view'.inner_zone) = 2 * 320
           /\ BottomSpan(view'.inner_zone) = 100 ]_vars

\* The zones computed from the defaults on a 640x480 frame.
C20_Witness ==
    /\ DefaultZones
    /\ view.outer_zone = << <<120, 390>>, <<520, 390>>, <<420, 90>>, <<220, 90>> >>
    /\ view.inner_zone = << <<220, 340>>, <<420, 340>>, <<370, 140>>, <<270, 140>> >>

\* ------------------------------------------------------------ SpecDetect
\* The camera tick: update_frame on frames whose contours are drawn from the
\* inputs below, with capture failures, the flash interval, the passing of
\* time, a zone slider, and the motor entering and leaving Emergency.

\* Skin contours: a hand in the inner zone at the area threshold, one just
\* below it, and a hand in the outer zone only (default zones, 640x480).
HandInner == [area |-> 3000, cx |-> 320, cy |-> 240]

HandSmall == [area |-> 2999, cx |-> 320, cy |-> 240]

HandOuter == [area |-> 5000, cx |-> 320, cy |-> 100]

SkinInputs == {<<>>, <<HandSmall, HandOuter>>, <<HandOuter, HandInner>>}

\* Motion contours on the 320x240 frame: centred in the inner zone at the
\* scaled area threshold and just below it, in the outer zone only, and
\* outside both.
MotionInner == [area |-> 250, x |-> 150, y |-> 110, w |-> 20, h |-> 20]

MotionSmall == [area |-> 249, x |-> 150, y |-> 110, w |-> 20, h |-> 20]

MotionOuter == [area |-> 400, x |-> 150, y |-> 40, w |-> 20, h |-> 20]

MotionFar == [area |-> 400, x |-> 0, y |-> 0, w |-> 10, h |-> 10]

MotionInputs ==
    {<<>>, <<MotionInner>>, <<MotionSmall, MotionFar, MotionOuter, MotionInner>>}

Frames ==
    [ size   : {<<FRAME_WIDTH, FRAME_HEIGHT>>},
      blur   : {1, 2},
      skin   : SkinInputs,
      motion : MotionInputs ]

DetectSliderPositions == [zone_offset_x |-> {-200, 0}]

DetectInit ==
    /\ motor = MotorInit
    /\ log = <<>>
    /\ ticks = 0
    /\ screen = ScreenInit
    /\ clock = ClockInit
    /\ switch_on = FALSE
    /\ seen_off = FALSE
    /\ view = ViewInit
    /\ now = StartTime
    /\ remote = RemoteIdle
    /\ runtime = RuntimeInit
    /\ disk = DiskInit
    /\ last_tick = "none"

UpdateFrame(ret, frame) ==
    /\ ticks < MaxFrames
    /\ LET r == frame_step(view, motor, now, ret, frame)
       IN  /\ view' = r.view
           /\ log' = r.events
           /\ last_tick' = r.did
           /\ motor' = frame_motor(motor, r.events)
    /\ ticks' = ticks + 1
    /\ UNCHANGED <<screen, clock, switch_on, seen_off, now, threadVars, storeVars>>

FlashBackground ==
    /\ view.flash_event
    /\ view' = flash_background(view)
    /\ log' = <<>>
    /\ UNCHANGED <<motor, ticks, screen, clock, switch_on, seen_off, now,
                   last_tick, threadVars, storeVars>>

TimePasses ==
    /\ now < StartTime + MaxSeconds
    /\ now' = now + 1
    /\ UNCHANGED <<motor, log, ticks, screen, clock, switch_on, seen_off,
                   view, last_tick, threadVars, storeVars>>

DetectNext ==
    \/ \E ret \in BOOLEAN : \E frame \in Frames : UpdateFrame(ret, frame)
    \/ FlashBackground
    \/ TimePasses
    \/ \E name \in DOMAIN DetectSliderPositions :
          \E value \in DetectSliderPositions[name] : MoveSlider(name, value)
    \/ EnterEmergency
    \/ ExitEmergency
    \/ \E p \in Presets : SetSpeed(p)

SpecDetect == DetectInit /\ [][DetectNext]_vars

\* A step of update_frame that ran the detection: the capture succeeded
\* outside Emergency and the frame-skip toggle went from false to true.
DetectionTick(frame) ==
    UpdateFrame(TRUE, frame) /\ ~motor.in_emergency /\ view'.frame_toggle

\* C16: on a detection tick with a skin contour of at least the hand
\* threshold area whose centroid is in the inner zone, the hand warning and
\* the alert time are set, HAND_DETECTED is logged and nothing else (no
\* MOTION_INNER or MOTION_OUTER, whatever the motion contours), and the
\* previous-frame buffer is not touched.
C16_HandSuppressesMotion ==
    [][ (ticks' = ticks + 1 /\ last_tick' = "detect")
        => \A frame \in Frames :
             ( /\ \E i \in 1..Len(frame.skin) :
                    /\ frame.skin[i].area >= MIN_HAND_AREA
                    /\ point_in_zone(view'.inner_zone,
                                     <<frame.skin[i].cx, frame.skin[i].cy>>)
               /\ DetectionTick(frame) )
             => /\ log' = <<"HAND_DETECTED">>
                /\ view'.warning_text = "HAND_DETECTED"
                /\ view'.last_motion_time = now
                /\ view'.status_text = "HAND_DETECTED"
                /\ view'.prev_frame = view.prev_frame ]_vars

\* A hand alert on a tick that had a previous frame to difference against
\* and so would have run the motion detection.
C16_Witness ==
    /\ last_tick = "detect"
    /\ log = <<"HAND_DETECTED">>
    /\ view.prev_frame # 0
    /\ view.flash_event

\* C17, as stated: of any two consecutive camera ticks exactly one runs the
\* detection.
C17_EveryOtherTickDetects ==
    [][ (ticks' = ticks + 1 /\ last_tick # "none")
        => ((last_tick' = "detect") # (last_tick = "detect")) ]_vars

\* C17, amended: the ticks that capture a frame outside Emergency alternate
\* between detection and skip (a tick in Emergency or with a failed capture
\* is neither and leaves the alternation where it was), and a skip tick logs
\* no event and leaves the warning, the alert time, the flash and the
\* previous-frame buffer unchanged.
C17_CapturedTicksAlternate ==
    [][ ticks' = ticks + 1
        => IF last_tick' \in {"detect", "skip"}
           THEN /\ view'.frame_toggle = ~view.frame_toggle
                /\ last_tick' = IF view.frame_toggle THEN "skip" ELSE "detect"
                /\ last_tick' = "skip"
                      => /\ log' = <<>>
                         /\ view'.warning_text = view.warning_text
                         /\ view'.last_motion_time = view.last_motion_time
                         /\ view'.flash_event = view.flash_event
                         /\ view'.flash_counter = view.flash_counter
                         /\ view'.prev_frame = view.prev_frame
           ELSE /\ view'.frame_toggle = view.frame_toggle
                /\ last_tick' \in {"failed", "emergency"}
                /\ last_tick' = "emergency" <=> motor.in_emergency ]_vars

\* A skip tick that follows a detection tick with a hand alert: the warning
\* is still shown and was not renewed.
C17_Witness ==
    /\ last_tick = "skip"
    /\ ~view.frame_toggle
    /\ view.warning_text = "HAND_DETECTED"
    /\ view.status_text = "HAND_DETECTED"
    /\ view.last_motion_time = now

\* C18: a camera tick whose capture fails leaves the frame-skip toggle, the
\* previous-frame buffer, the alert time, the warning text, the zones, the
\* cached overlay and the dirty flag (the whole screen) unchanged and logs no
\* event.
C18_FailedCaptureChangesNothing ==
    [][ (ticks' = ticks + 1 /\ last_tick' = "failed")
        => view' = view /\ log' = <<>> ]_vars

\* A failed capture between a detection tick and the skip tick that follows.
C18_Witness ==
    /\ last_tick = "failed"
    /\ view.frame_toggle
    /\ view.prev_frame # 0
    /\ view.static_overlay.built

\* C29: on a detection tick without a hand alert that runs the motion
\* detection, the first motion contour of at least the scaled threshold area
\* whose centroid is in the inner or the outer zone determines the alert:
\* MOTION_INNER if it is in the inner zone, MOTION_OUTER otherwise, logged
\* once with the warning and the alert time set; later contours add nothing,
\* and without such a contour nothing is logged.  No detection tick logs more
\* than one alert event.
C29_FirstContourDecides ==
    [][ (ticks' = ticks + 1 /\ last_tick' = "detect")
        => /\ Len(log') <= 1
           /\ \A frame \in Frames :
                ( /\ DetectionTick(frame)
                  /\ ~hand_detected(view', frame.skin)
                  /\ view.prev_frame # 0 )
                => LET centre(c) == <<c.x * 2 + c.w, c.y * 2 + c.h>>
                       inner(c) == point_in_zone(view'.inner_zone, centre(c))
                       outer(c) == point_in_zone(view'.outer_zone, centre(c))
                       alerts(i) ==
                           /\ 4 * frame.motion[i].area >= MIN_MOTION_AREA
                           /\ inner(frame.motion[i]) \/ outer(frame.motion[i])
                       first(i) ==
                           /\ alerts(i)
                           /\ \A j \in 1..(i - 1) : ~alerts(j)
                   IN  IF \E i \in 1..Len(frame.motion) : alerts(i)
                       THEN \E i \in 1..Len(frame.motion) :
                               /\ first(i)
                               /\ log' = IF inner(frame.motion[i])
                                         THEN <<"MOTION_INNER">>
                                         ELSE <<"MOTION_OUTER">>
                               /\ view'.warning_text = log'[1]
                               /\ view'.last_motion_time = now
                       ELSE /\ log' = <<>>
                            /\ view'.warning_text = view.warning_text
                            /\ view'.last_motion_time = view.last_motion_time
      ]_vars

\* The outer alert of a frame whose later contour lies in the inner zone: with
\* the zones centred, only the frame of four contours gives MOTION_OUTER.
C29_Witness ==
    /\ last_tick = "detect"
    /\ log = <<"MOTION_OUTER">>
    /\ view.warning_text = "MOTION_OUTER"
    /\ view.zone_offset_x = 0
    /\ view.last_motion_time = now

\* C38: a camera tick, whatever alert it produces, and a flash_background
\* tick leave the motor as it was: set_speed_percent, the PWM duty, enabled,
\* in_emergency, post_emergency and the rest of the MotorSimulator are the
\* same before and after.
C38_FrameLeavesMotorUnchanged ==
    [][ (ticks' = ticks + 1 \/ FlashBackground)
        => /\ motor' = motor
           /\ motor'.pwm = motor.pwm
           /\ motor'.set_speed_percent = motor.set_speed_percent ]_vars

\* A hand alert with the motor running: the duty is still 50 after the tick.
C38_Witness ==
    /\ last_tick = "detect"
    /\ log = <<"HAND_DETECTED">>
    /\ view.flash_event
    /\ motor.pwm = 50
    /\ motor.enabled

\* ------------------------------------------------------------ SpecOverlay
\* The overlay cache and the settings: frames of two sizes, moves of the
\* sliders, and load_settings_from_file on the settings files below.

SettingsFiles ==
    { [kind |-> "missing", settings |-> <<>>],
      [kind |-> "invalid", settings |-> <<>>],
      [kind |-> "array",   settings |-> <<>>],
      [kind |-> "object",  settings |-> <<>>],
      [kind |-> "object",
       settings |-> << <<"outer_width", 600>>, <<"hatch_spacing", 40>> >>] }

OverlaySliderPositions ==
    [ outer_width   |-> {400, 600},
      hatch_spacing |-> {20, 40} ]

OverlayFrames ==
    [ size   : FrameSizes,
      blur   : {1},
      skin   : {<<>>},
      motion : {<<>>, <<MotionInner>>} ]

LoadSettingsFromFile(file) ==
    /\ LET r == load_settings_from_file(view, file)
       IN  /\ view' = r.view
           /\ log' = r.out
    /\ UNCHANGED <<motor, ticks, screen, clock, switch_on, seen_off, now,
                   last_tick, threadVars, storeVars>>

OverlayNext ==
    \/ \E ret \in BOOLEAN : \E frame \in OverlayFrames : UpdateFrame(ret, frame)
    \/ \E name \in DOMAIN OverlaySliderPositions :
          \E value \in OverlaySliderPositions[name] : MoveSlider(name, value)
    \/ \E file \in SettingsFiles : LoadSettingsFromFile(file)

SpecOverlay == DetectInit /\ [][OverlayNext]_vars

\* C21: load_settings_from_file on a file that is not valid JSON does not
\* raise and leaves the view, with the six zone parameters, hatch_spacing,
\* warning_duration and overlay_dirty, as it was.
C21_InvalidJsonChangesNothing ==
    [][ \A file \in SettingsFiles :
           (file.kind = "invalid" /\ LoadSettingsFromFile(file))
           => /\ view' = view
              /\ log' = <<"WARNING">> ]_vars

\* An invalid file was loaded over moved sliders and a clean overlay: the
\* warning is out, the parameters are the moved ones, the overlay still clean.
C21_Witness ==
    /\ log = <<"WARNING">>
    /\ view.outer_width = 600
    /\ view.hatch_spacing = 40
    /\ ~view.overlay_dirty
    /\ view.static_overlay.built

\* C30: whenever update_frame composites the cached overlay onto a frame, the
\* overlay was generated for the size of that frame, the current zones and
\* the current hatch spacing.
C30_OverlayMatchesFrame ==
    [][ \A frame \in OverlayFrames :
           (ticks' = ticks + 1 /\ UpdateFrame(TRUE, frame)
                               /\ last_tick' \in {"detect", "skip"})
           => view'.static_overlay =
                 [ built |-> TRUE,
                   size  |-> frame.size,
                   outer |-> view'.outer_zone,
                   inner |-> view'.inner_zone,
                   hatch |-> view'.hatch_spacing ] ]_vars

\* ------------------------------------------------------------ SpecWarning
\* The status label over time: frames with and without an alert, failed
\* captures, Emergency, the Warning Duration slider, and seconds passing.

WarningSliderPositions == [warning_duration |-> {1, 3}]

WarningFrames ==
    [ size   : {<<FRAME_WIDTH, FRAME_HEIGHT>>},
      blur   : {1},
      skin   : {<<>>, <<HandInner>>},
      motion : {<<>>, <<MotionOuter>>} ]

WarningNext ==
    \/ \E ret \in BOOLEAN : \E frame \in WarningFrames : UpdateFrame(ret, frame)
    \/ TimePasses
    \/ \E name \in DOMAIN WarningSliderPositions :
          \E value \in WarningSliderPositions[name] : MoveSlider(name, value)
    \/ EnterEmergency
    \/ ExitEmergency

SpecWarning == DetectInit /\ [][WarningNext]_vars

\* C28 as stated: after every camera tick, a detection tick, a skip tick or a
\* tick whose capture fails, the displayed status is the warning if
\* now - last_motion_time <= warning_duration and the clear message otherwise.
C28_StatusFollowsInterval ==
    [][ ticks' = ticks + 1
        => view'.status_text =
              IF now - view'.last_motion_time <= view'.warning_duration
              THEN view'.warning_text
              ELSE "Cutting Board is Clear" ]_vars

\* C28, amended: a camera tick that composites a frame and reaches the status
\* update (every skip tick, and every detection tick but the one that only
\* stores the first previous frame) leaves the warning displayed if
\* now - last_motion_time <= warning_duration and the clear message otherwise;
\* every other tick (capture failed, Emergency, first previous frame) leaves
\* the displayed status as it was.
C28_StatusRefreshedOnCompositedTicks ==
    [][ ticks' = ticks + 1
        => IF /\ last_tick' \in {"detect", "skip"}
              /\ ~(last_tick' = "detect" /\ view.prev_frame = 0 /\ log' = <<>>)
           THEN view'.status_text =
                   IF now - view'.last_motion_time <= view'.warning_duration
                   THEN view'.warning_text
                   ELSE "Cutting Board is Clear"
           ELSE view'.status_text = view.status_text ]_vars

\* A warning that has run out: a composited tick put the clear message back
\* after more than warning_duration seconds.
C28_Witness ==
    /\ last_tick = "skip"
    /\ view.warning_text = "HAND_DETECTED"
    /\ view.last_motion_time = StartTime
    /\ now - view.last_motion_time > view.warning_duration
    /\ view.status_text = "Cutting Board is Clear"

\* ------------------------------------------------------------ SpecHours
\* The run-hours counter: update_run_hours of the screen shown and of the
\* screens replaced by a reset (activate_emergency does not unschedule it, so
\* it keeps ticking on every screen ever created), once per second each; the
\* debug key "2"; reset_run_hours; and the motor operations that start, stop
\* and lock the motor.  run_hours is kept in seconds.

HoursSpeeds == {0, 50}

SecondPasses ==
    /\ now < StartTime + MaxRunSeconds
    /\ runtime.live.ticked
    /\ \A i \in 1..Len(runtime.stale) : runtime.stale[i].ticked
    /\ now' = now + 1
    /\ runtime' = [ live  |-> [runtime.live EXCEPT !.ticked = FALSE],
                    stale |-> [i \in 1..Len(runtime.stale) |->
                                 [runtime.stale[i] EXCEPT !.ticked = FALSE]] ]
    /\ log' = <<>>
    /\ UNCHANGED <<motor, ticks, screen, clock, switch_on, seen_off, view,
                   last_tick, threadVars, disk>>

\* update_run_hours of the screen shown.
UpdateRunHours ==
    /\ ~runtime.live.ticked
    /\ LET sc == update_run_hours(runtime.live, motor, now)
       IN  /\ runtime' = [runtime EXCEPT !.live = sc]
           /\ disk' = IF running(motor)
                      THEN save_run_hours(disk, sc.run_hours)
                      ELSE disk
    /\ log' = <<>>
    /\ UNCHANGED <<motor, ticks, screen, clock, switch_on, seen_off,
                   cameraVars, threadVars>>

\* update_run_hours of a replaced screen.
UpdateRunHoursStale(i) ==
    /\ ~runtime.stale[i].ticked
    /\ LET sc == update_run_hours(runtime.stale[i], motor, now)
       IN  /\ runtime' = [runtime EXCEPT !.stale[i] = sc]
           /\ disk' = IF running(motor)
                      THEN save_run_hours(disk, sc.run_hours)
                      ELSE disk
    /\ log' = <<>>
    /\ UNCHANGED <<motor, ticks, screen, clock, switch_on, seen_off,
                   cameraVars, threadVars>>

\* _on_window_key_down with codepoint "2": one hour is added.
KeyTwo ==
    /\ runtime.live.run_hours < MaxKeyHours * 3600
    /\ runtime' = [runtime EXCEPT !.live.run_hours = @ + 3600]
    /\ disk' = save_run_hours(disk, runtime.live.run_hours + 3600)
    /\ log' = <<>>
    /\ UNCHANGED <<motor, ticks, screen, clock, switch_on, seen_off,
                   cameraVars, threadVars>>

\* SettingsScreen.reset_run_hours.
ResetRunHours ==
    /\ runtime' = [runtime EXCEPT !.live.run_hours = 0]
    /\ disk' = save_run_hours(disk, 0)
    /\ log' = <<>>
    /\ UNCHANGED <<motor, ticks, screen, clock, switch_on, seen_off,
                   cameraVars, threadVars>>

\* do_reset_after_delay: exit_emergency, and a fresh LiveViewScreen, which
\* loads run_hours from the file, replaces the screen shown.
HoursReset ==
    /\ motor.in_emergency
    /\ Len(runtime.stale) < MaxResets
    /\ motor' = exit_emergency(motor)
    /\ runtime' = [ live  |-> new_runtime(disk, now),
                    stale |-> Append(runtime.stale, runtime.live) ]
    /\ log' = <<>>
    /\ UNCHANGED <<ticks, screen, clock, switch_on, seen_off, cameraVars,
                   threadVars, disk>>

HoursNext ==
    \/ SecondPasses
    \/ UpdateRunHours
    \/ \E i \in 1..Len(runtime.stale) : UpdateRunHoursStale(i)
    \/ KeyTwo
    \/ ResetRunHours
    \/ HoursReset
    \/ \E p \in HoursSpeeds : SetSpeed(p)
    \/ EnterEmergency
    \/ CompletePostEmergency

SpecHours == Init /\ [][HoursNext]_vars

\* C31: run_hours of the screen shown decreases only by reset_run_hours, to 0,
\* and increases only on a runtime tick at which set_speed_percent > 0 and the
\* motor is in neither Emergency nor PostEmergency, by the time since the
\* tick before, a second; on every other runtime tick it is unchanged.
C31_RunHoursCountRunningTime ==
    [][ /\ runtime'.live.run_hours < runtime.live.run_hours
              => ResetRunHours /\ runtime'.live.run_hours = 0
        /\ runtime'.live.run_hours > runtime.live.run_hours
              => /\ UpdateRunHours
                 /\ running(motor)
                 /\ runtime'.live.run_hours = runtime.live.run_hours + 1
        /\ (UpdateRunHours /\ ~running(motor))
              => runtime'.live.run_hours = runtime.live.run_hours ]_vars

\* ------------------------------------------------------------ SpecFiles
\* The writes of the two persisted files, one file operation at a time, and
\* a restart of the application at any point between them (the process is
\* killed or the power fails, and the files are read back by the next
\* LiveViewScreen.__init__).  The settings are stood for by outer_width.

FileSliderPositions == [outer_width |-> {400, 600}]

\* save_settings_to_file: open(tmp_path, "w") ...
SaveSettingsOpen ==
    /\ disk.pc = "idle"
    /\ disk' = [disk EXCEPT !.tmp = Partial,
                            !.pc = "tmp_open",
                            !.pending = view.outer_width]
    /\ log' = <<>>
    /\ UNCHANGED <<motor, ticks, screen, clock, switch_on, seen_off,
                   cameraVars, threadVars, runtime>>

\* ... json.dump and the end of the with block ...
SaveSettingsDump ==
    /\ disk.pc = "tmp_open"
    /\ disk' = [disk EXCEPT !.tmp = Whole(disk.pending), !.pc = "tmp_closed"]
    /\ log' = <<>>
    /\ UNCHANGED <<motor, ticks, screen, clock, switch_on, seen_off,
                   cameraVars, threadVars, runtime>>

\* ... os.replace(tmp_path, SETTINGS_FILE).
SaveSettingsReplace ==
    /\ disk.pc = "tmp_closed"
    /\ disk' = [disk EXCEPT !.settings = disk.tmp,
                            !.tmp = Missing,
                            !.pc = "idle",
                            !.pending = 0]
    /\ log' = <<>>
    /\ UNCHANGED <<motor, ticks, screen, clock, switch_on, seen_off,
                   cameraVars, threadVars, runtime>>

\* save_run_hours: open(RUNTIME_FILE, "w") truncates the file ...
save_run_hours_open(d, hours) ==
    [d EXCEPT !.run_hours = Partial, !.pc = "hours_open", !.pending = hours]

\* ... json.dump and the end of the with block.
save_run_hours_dump(d) ==
    [d EXCEPT !.run_hours = Whole(d.pending), !.pc = "idle", !.pending = 0]

\* _on_window_key_down with codepoint "2", up to the open in save_run_hours.
KeyTwoOpen ==
    /\ disk.pc = "idle"
    /\ runtime.live.run_hours < MaxKeyHours * 3600
    /\ runtime' = [runtime EXCEPT !.live.run_hours = @ + 3600]
    /\ disk' = save_run_hours_open(disk, runtime.live.run_hours + 3600)
    /\ log' = <<>>
    /\ UNCHANGED <<motor, ticks, screen, clock, switch_on, seen_off,
                   cameraVars, threadVars>>

\* reset_run_hours, up to the open in save_run_hours.
ResetRunHoursOpen ==
    /\ disk.pc = "idle"
    /\ runtime' = [runtime EXCEPT !.live.run_hours = 0]
    /\ disk' = save_run_hours_open(disk, 0)
    /\ log' = <<>>
    /\ UNCHANGED <<motor, ticks, screen, clock, switch_on, seen_off,
                   cameraVars, threadVars>>

SaveRunHoursDump ==
    /\ disk.pc = "hours_open"
    /\ disk' = save_run_hours_dump(disk)
    /\ log' = <<>>
    /\ UNCHANGED <<motor, ticks, screen, clock, switch_on, seen_off,
                   cameraVars, threadVars, runtime>>

\* What load_settings_from_file finds in SETTINGS_FILE.
settings_file(file) ==
    IF ~file.exists THEN [kind |-> "missing", settings |-> <<>>]
    ELSE IF ~file.complete THEN [kind |-> "invalid", settings |-> <<>>]
    ELSE [kind |-> "object",
          settings |-> << <<"outer_width", file.value>> >>]

\* The application is started again: a new MotorSimulator and a new
\* LiveViewScreen, which reads both files; a .tmp file left behind stays.
Restart ==
    /\ motor' = MotorInit
    /\ screen' = ScreenInit
    /\ clock' = ClockInit
    /\ view' = load_settings_from_file(ViewInit, settings_file(disk.settings)).view
    /\ runtime' = [live |-> new_runtime(disk, now), stale |-> <<>>]
    /\ disk' = [disk EXCEPT !.pc = "idle", !.pending = 0]
    /\ remote' = RemoteIdle
    /\ log' = <<>>
    /\ UNCHANGED <<ticks, switch_on, seen_off, now, last_tick>>

FilesNext ==
    \/ \E name \in DOMAIN FileSliderPositions :
          \E value \in FileSliderPositions[name] :
             disk.pc = "idle" /\ MoveSlider(name, value)
    \/ SaveSettingsOpen
    \/ SaveSettingsDump
    \/ SaveSettingsReplace
    \/ KeyTwoOpen
    \/ ResetRunHoursOpen
    \/ SaveRunHoursDump
    \/ Restart

SpecFiles == Init /\ [][FilesNext]_vars

\* C32: at every point between the steps of a write, each persisted file that
\* exists holds a complete document, the old one or the new one, never a
\* partial one.
C32_PersistedFilesAlwaysWhole ==
    \A file \in {disk.settings, disk.run_hours} :
       file.exists => file.complete

\* ------------------------------------------------------------ SpecRecover
\* The way out of Emergency, with the scheduling the Kivy clock and the
\* operator give it: every scheduled event runs when it is due, time goes on,
\* the operator touches the panel once it accepts the touch and turns the
\* motor switch on when it is off, and the status tick of the screen shown
\* keeps reading the switch while it is on.

RecoverNext ==
    \/ SwitchFlip
    \/ UpdateStatusBar
    \/ ActivateEmergency
    \/ \E v \in RemoteSwitches : HandleEmergencyButton(v)
    \/ RunEmergencyLive
    \/ RunEmergencyStale
    \/ EnableEmergencyTouch
    \/ TouchScreen
    \/ DoResetAfterDelay
    \/ DoResetStale
    \/ Advance

RecoverFairness ==
    /\ WF_vars(Advance)
    /\ WF_vars(RunEmergencyLive)
    /\ WF_vars(RunEmergencyStale)
    /\ WF_vars(EnableEmergencyTouch)
    /\ WF_vars(DoResetAfterDelay)
    /\ WF_vars(DoResetStale)
    /\ WF_vars(TouchScreen /\ reset_accepted(screen))
    /\ WF_vars(SwitchFlip /\ ~switch_on)
    /\ SF_vars(UpdateStatusBar /\ switch_on)

SpecRecover == Init /\ [][RecoverNext]_vars /\ RecoverFairness

\* C40: Emergency is never a dead end.  From every state with the motor in
\* Emergency, with the timers firing, the operator touching the screen and
\* the status ticks reading the switch on, the motor comes to Normal and is
\* enabled again, unless another emergency stop is triggered first (the step
\* that logs EMERGENCY_STOP).
C40_EmergencyIsLeft ==
    (motor.in_emergency /\ log = <<>>)
       ~> \/ ~motor.in_emergency /\ ~motor.post_emergency /\ motor.enabled
          \/ log = <<"EMERGENCY_STOP">>


====
